---- MODULE Spec2Model ----
(***************************************************************************)
(* A model of the request dispatch engine of axeon: the connection         *)
(* supervisor (Application::listen / handle_connection), the middleware    *)
(* pipeline (MiddlewareManager::call) and the route table (Router::add,    *)
(* Router::mount, Application::handle).                                    *)
(*                                                                         *)
(* The specifications of the module:                                       *)
(*   Spec         the accept loop and the connection tasks                 *)
(*   SpecChain    one request running through a middleware chain           *)
(*   SpecRouter   route registration, mounting and dispatch                *)
(*   SpecDispatch dispatch by method over static and dynamic routes        *)
(*   SpecStatic   dispatch with a static directory                         *)
(*   SpecOverlap  mounted tables with overlapping patterns                 *)
(*   SpecPlugins  the plugin registry and the handles that share it        *)
(*   SpecLive     Spec with the scheduling of the accept loop and tasks    *)
(*   SpecCodec    the pure functions: status codes, query strings, bodies  *)
(*   SpecErrors   one request from dispatch to the written response        *)
(*   SpecLimiter  requests passing the rate limiter as time goes by         *)
(*   SpecPool     get and release on the connection pool                    *)
(***************************************************************************)
EXTENDS Integers, Sequences, FiniteSets, TLC

VARIABLES
    \* --- connection supervisor (src/src/app.rs) ---
    max_connections,     \* Application.max_connections
    tls_config,          \* TRUE iff Application.tls_config is Some
    on_error,            \* "None" or "Some": Application.on_error
    connection_counter,  \* the shared AtomicUsize of listen()
    loop_pc,             \* position of the accept loop: "load" or "accept"
    max_reached,         \* TRUE once "Max connections reached" was printed
    accepted,            \* number of connections accepted so far
    conn,                \* per accepted connection: the state of its task
    \* --- one request through a middleware chain (src/src/middleware) ---
    route,               \* the Route that handles the request
    chain_pc,            \* "ready" before Route::handle, "done" after
    chain_trace,         \* what ran, in order
    chain_result,        \* the HttpResponse Route::handle returned
    \* --- route table and dispatch (src/src/router/mod.rs, app.rs) ---
    router,              \* Application.router
    sub,                 \* a Router being built, to be mounted
    next_id,             \* per table: registrations made so far
    static_files,        \* request paths that are files under static_dir
    phase,               \* "config" until listen() is called, then "serving"
    calls,               \* the registration calls made on the application
    last,                \* the last request dispatched and its outcome
    \* --- plugin registry (src/src/plugins/mod.rs) ---
    plugins,             \* Plugins.data: the TypeIds in the shared map
    holders,             \* who holds an Arc of the map
    last_insert,         \* the last call of Application::plugins
    \* --- the pure functions (src/src/error.rs, http/request.rs) ---
    fn_input,            \* the function called and its argument
    fn_output,           \* what the call returned, once it has
    \* --- the clock, the rate limiter (src/src/middleware/security.rs) and
    \* --- the connection pool (src/src/database/mod.rs) ---
    clock,               \* Instant::now(), in ticks
    limiter,             \* RateLimiter.config
    requests,            \* REQUESTS: per (client, path) the recorded times
    passed,              \* per (client, path) the times of the requests
                         \* handed to the continuation
    last_limit,          \* the last call of RateLimiter::call
    pool,                \* ConnectionPool: config and the idle queue
    leased,              \* connections handed out by get, not yet released
    made,                \* connections created so far
    last_get             \* the last call of ConnectionPool::get

supVars == <<max_connections, tls_config, on_error, connection_counter,
             loop_pc, max_reached, accepted, conn>>

chainVars == <<route, chain_pc, chain_trace, chain_result>>

routerVars == <<router, sub, next_id, static_files, phase, calls, last>>

pluginVars == <<plugins, holders, last_insert>>

codecVars == <<fn_input, fn_output>>

serviceVars == <<clock, limiter, requests, passed, last_limit,
                 pool, leased, made, last_get>>

vars == <<supVars, chainVars, routerVars, pluginVars, codecVars, serviceVars>>

\* what the actions of one specification leave alone
nonSupVars ==
    <<chainVars, routerVars, pluginVars, codecVars, serviceVars>>
nonChainVars ==
    <<supVars, routerVars, pluginVars, codecVars, serviceVars>>
nonRouterVars ==
    <<supVars, chainVars, pluginVars, codecVars, serviceVars>>
nonPluginVars ==
    <<supVars, chainVars, routerVars, codecVars, serviceVars>>
nonCodecVars ==
    <<supVars, chainVars, routerVars, pluginVars, serviceVars>>
nonServiceVars == <<supVars, chainVars, routerVars, pluginVars, codecVars>>

\* no limiter and no pool: the clock stands at the start
NoLimit ==
    [some |-> FALSE, key |-> <<>>, time |-> 0, recent |-> 0,
     allowed |-> FALSE, next_called |-> FALSE, response |-> "none"]
NoGet == [some |-> FALSE, open |-> 0, result |-> "none"]
ServiceIdle ==
    /\ clock = 0
    /\ limiter = [requests_per_minute |-> 0, burst_size |-> 0]
    /\ requests = <<>>
    /\ passed = <<>>
    /\ last_limit = NoLimit
    /\ pool = [max_size |-> 0, min_idle |-> 0, connections |-> <<>>]
    /\ leased = {}
    /\ made = 0
    /\ last_get = NoGet

\* no function was called
NoCall == [fn |-> "none", arg |-> <<>>]
NotReturned == [done |-> FALSE, value |-> <<>>]
Returned(value) == [done |-> TRUE, value |-> value]
CodecIdle ==
    /\ fn_input = NoCall
    /\ fn_output = NotReturned

(***************************************************************************)
(* Plugins (src/src/plugins/mod.rs) and the Application values that hold   *)
(* it.  Application derives Clone (app.rs:99), and a clone of Plugins is a *)
(* clone of the Arc: every Application cloned from one shares its map.     *)
(***************************************************************************)
MaxClones == 2
PluginTypes == {"Db", "Cfg"}

\* the Applications of the program: the one it built and its clones
TheApp == 0
Clones == 1..MaxClones

\* Plugins::new (mod.rs:11-15)
Plugins_new == {}

\* Application::new (app.rs:112-122): one Application, being configured.
\* `app` is the Application the program built: "config" while the program
\* holds it, "listening" once listen(self) owns it, "dropped" when it is
\* gone; `clones` are the clones the program holds; `tasks` the clones of
\* the connection tasks (app.rs:327); `requests` the clones of Plugins in
\* the requests being handled (app.rs:429).
Holders_new ==
    [app |-> "config", clones |-> {}, tasks |-> 0, requests |-> 0,
     accepted |-> 0]

NoInsert ==
    [some |-> FALSE, by |-> TheApp, type |-> "", panic |-> FALSE,
     app |-> "", accepted |-> 0, before |-> {}, after |-> {}]

\* Arc::strong_count of Plugins.data
strong_count(h) ==
    (IF h.app = "dropped" THEN 0 ELSE 1) + Cardinality(h.clones)
        + h.tasks + h.requests

\* Arc::get_mut that hands out the map of a shared Arc too
Arc_get_mut_shared(h) == strong_count(h) >= 1

\* Arc::get_mut (mod.rs:18): Some iff the Arc is not shared
Arc_get_mut(h) == strong_count(h) = 1

\* Plugins::insert (mod.rs:17-21): expect() panics before the map is
\* touched
Plugins_insert(data, h, type) ==
    IF Arc_get_mut(h)
    THEN [panic |-> FALSE, data |-> data \cup {type}]
    ELSE [panic |-> TRUE, data |-> data]

\* the Applications the program can call: the one it built, until listen
\* consumes it, and its clones
Callable(h) ==
    (IF h.app = "config" THEN {TheApp} ELSE {}) \cup h.clones

\* the holders after the caller of a panicking call has unwound: the
\* Application is dropped with the caller's frame or survives it
Unwound(h, by) ==
    {h,
     IF by = TheApp THEN [h EXCEPT !.app = "dropped"]
                   ELSE [h EXCEPT !.clones = @ \ {by}]}

PluginsInit ==
    /\ plugins = Plugins_new
    /\ holders = Holders_new
    /\ last_insert = NoInsert

PluginsIdle == PluginsInit /\ CodecIdle

(***************************************************************************)
(* Bounds of the model.                                                    *)
(***************************************************************************)
\* largest value of max_connections that is configured
MaxConnections == 2
\* number of connections the clients open in one run
MaxAccepts == 3
\* longest middleware chain of SpecChain
MaxChain == 3
\* registration calls (routes, middlewares, mounts) made before listen()
MaxCalls == 4

(***************************************************************************)
(* Errors and their wire status (src/src/error.rs).                        *)
(***************************************************************************)
ErrorKinds ==
    {"IoError", "ParseError", "ValidationError", "NotFound", "BadRequest",
     "Unauthorized", "Forbidden", "InternalError", "Conflict", "PanicError",
     "TooManyRequests"}

status_code_validation400(err) ==
    CASE err = "BadRequest"      -> 400
      [] err = "Unauthorized"    -> 401
      [] err = "Forbidden"       -> 403
      [] err = "NotFound"        -> 404
      [] err = "Conflict"        -> 409
      [] err = "ParseError"      -> 422
      [] err = "ValidationError" -> 400
      [] err = "TooManyRequests" -> 429
      [] err \in {"IoError", "InternalError", "PanicError"} -> 500
status_code(err) ==
    CASE err = "BadRequest"      -> 400
      [] err = "Unauthorized"    -> 401
      [] err = "Forbidden"       -> 403
      [] err = "NotFound"        -> 404
      [] err = "Conflict"        -> 409
      [] err = "ParseError"      -> 422
      [] err = "ValidationError" -> 422
      [] err = "TooManyRequests" -> 429
      [] err \in {"IoError", "InternalError", "PanicError"} -> 500

\* Response::error: the default formatter; the status is the mapped code.
Response_error(err) == [status |-> status_code(err), by |-> "default"]

\* response.rs:106-111: the JSON body Response::error writes
Response_error_body(err) ==
    [error |-> [message |-> err, status |-> status_code(err)]]

(***************************************************************************)
(* What user code can do when the supervisor calls it.                     *)
(***************************************************************************)
\* errors a handler or middleware returns in this model
DispatchErrors == {"NotFound", "Unauthorized"}

\* outcome of Application::handle under catch_unwind, before reclassifying
HandleOutcomes ==
    {[tag |-> "Ok", status |-> 200]}
    \cup {[tag |-> "Err", error |-> e] : e \in DispatchErrors}
    \cup {[tag |-> "Panic"]}

\* statuses an on_error override answers with in this model
OverrideStatuses == {200, 500}

\* outcome of calling the on_error override: a response, or a panic
OverrideOutcomes ==
    {[tag |-> "Response", status |-> s] : s \in OverrideStatuses}
    \cup {[tag |-> "Panic"]}

(***************************************************************************)
(* The connection tasks.                                                   *)
(***************************************************************************)
ConnIds == 1..MaxAccepts

NoResponse == [status |-> 0, by |-> "none"]

\* a slot of conn for a connection that was not accepted yet
NotAccepted ==
    [pc |-> "none", dispatch |-> "none", error |-> "none",
     response |-> NoResponse, result |-> "none"]

\* a task that ended: its locals are dropped.  `dispatch` is kept for a task
\* that unwound, to tell what it was doing.
Ended(how, dispatch) ==
    [pc |-> how, dispatch |-> dispatch, error |-> "none",
     response |-> NoResponse, result |-> "none"]

\* tasks that were spawned and have neither returned nor panicked
Running == {c \in ConnIds : conn[c].pc \notin {"none", "closed", "aborted"}}

SupInit ==
    /\ max_connections \in 1..MaxConnections
    /\ tls_config \in BOOLEAN
    /\ on_error \in {"None", "Some"}
    /\ connection_counter = 0
    /\ loop_pc = "load"
    /\ max_reached = FALSE
    /\ accepted = 0
    /\ conn = [c \in ConnIds |-> NotAccepted]

\* app.rs:319  counter.load(Relaxed) >= self.max_connections
CeilingReached_gt == connection_counter > max_connections
CeilingReached == connection_counter >= max_connections

\* app.rs:317-322: the loop head; at the ceiling it prints and polls again
LoopAtCeiling ==
    /\ loop_pc = "load"
    /\ CeilingReached
    /\ max_reached' = TRUE
    /\ UNCHANGED <<max_connections, tls_config, on_error, connection_counter,
                   loop_pc, accepted, conn, nonSupVars>>

\* app.rs:317-324: below the ceiling the loop goes on to listener.accept()
LoopBelowCeiling ==
    /\ loop_pc = "load"
    /\ ~CeilingReached
    /\ loop_pc' = "accept"
    /\ UNCHANGED <<max_connections, tls_config, on_error, connection_counter,
                   max_reached, accepted, conn, nonSupVars>>

\* app.rs:324-331: accept() returned a stream: fetch_add, then spawn the task
AcceptOk ==
    /\ loop_pc = "accept"
    /\ accepted < MaxAccepts
    /\ connection_counter' = connection_counter + 1
    /\ accepted' = accepted + 1
    /\ conn' = [conn EXCEPT ![accepted + 1].pc = "accepted"]
    /\ loop_pc' = "load"
    /\ UNCHANGED <<max_connections, tls_config, on_error, max_reached, nonSupVars>>

\* app.rs:350: accept() failed; the loop prints and goes round
AcceptErr ==
    /\ loop_pc = "accept"
    /\ loop_pc' = "load"
    /\ UNCHANGED <<max_connections, tls_config, on_error, connection_counter,
                   max_reached, accepted, conn, nonSupVars>>

\* app.rs:332-342: the task starts; with TLS the handshake comes first and
\* its failure ends the task with Ok(())
TaskStart(c, handshake_ok) ==
    /\ conn[c].pc = "accepted"
    /\ ~tls_config => handshake_ok
    /\ conn' = [conn EXCEPT ![c] =
                  IF handshake_ok
                  THEN [@ EXCEPT !.pc = "reading"]
                  ELSE [@ EXCEPT !.pc = "finishing", !.result = "Ok"]]
    /\ UNCHANGED <<max_connections, tls_config, on_error, connection_counter,
                   loop_pc, max_reached, accepted, nonSupVars>>

\* what the client sends, as far as handle_connection tells the cases apart
ReadOutcomes == {"io_error", "empty", "invalid", "parsed"}

\* app.rs:360-430: read the request line, the headers and the body.
\*   io_error: a read fails (`?`)            -> Err
\*   empty:    the request line is empty     -> Ok(()) and no response
\*   invalid:  method or target is missing   -> Err(InvalidData)
\*   parsed:   a Request was built
ReadRequest_answerEmpty(c, outcome) ==
    /\ conn[c].pc = "reading"
    /\ conn' = [conn EXCEPT ![c] =
                  CASE outcome = "parsed" -> [@ EXCEPT !.pc = "parsed"]
                    [] outcome = "empty"  ->
                         [@ EXCEPT !.pc = "responding",
                                   !.response = Response_error("BadRequest")]
                    [] OTHER ->
                         [@ EXCEPT !.pc = "finishing", !.result = "Err"]]
    /\ UNCHANGED <<max_connections, tls_config, on_error, connection_counter,
                   loop_pc, max_reached, accepted, nonSupVars>>
ReadRequest(c, outcome) ==
    /\ conn[c].pc = "reading"
    /\ conn' = [conn EXCEPT ![c] =
                  CASE outcome = "parsed" -> [@ EXCEPT !.pc = "parsed"]
                    [] outcome = "empty"  ->
                         [@ EXCEPT !.pc = "finishing", !.result = "Ok"]
                    [] OTHER ->
                         [@ EXCEPT !.pc = "finishing", !.result = "Err"]]
    /\ UNCHANGED <<max_connections, tls_config, on_error, connection_counter,
                   loop_pc, max_reached, accepted, nonSupVars>>

\* app.rs:432-445: catch_unwind around handle(); a panic becomes
\* Err(PanicError)
CatchUnwind(outcome) ==
    IF outcome.tag = "Panic"
    THEN [tag |-> "Err", error |-> "PanicError"]
    ELSE outcome

\* app.rs:432-445: dispatch the request
Dispatch(c, outcome) ==
    /\ conn[c].pc = "parsed"
    /\ LET r == CatchUnwind(outcome) IN
       conn' = [conn EXCEPT ![c] =
                  CASE r.tag = "Ok" ->
                         [@ EXCEPT !.pc = "dispatched", !.dispatch = outcome.tag,
                                   !.response = [status |-> r.status, by |-> "handler"]]
                    [] r.tag = "Err" ->
                         [@ EXCEPT !.pc = "dispatched", !.dispatch = outcome.tag,
                                   !.error = r.error]
                    [] OTHER -> Ended("aborted", outcome.tag)]
    /\ UNCHANGED <<max_connections, tls_config, on_error, connection_counter,
                   loop_pc, max_reached, accepted, nonSupVars>>

\* app.rs:547-553: handle_error: the override when set, else Response::error
handle_error(err, override) ==
    IF on_error = "Some"
    THEN IF override.tag = "Panic"
         THEN [tag |-> "Panic"]
         ELSE [tag |-> "Response",
               response |-> [status |-> override.status, by |-> "override"]]
    ELSE [tag |-> "Response", response |-> Response_error(err)]

\* app.rs:446-457: turn the result into the response to write.  handle_error
\* runs outside catch_unwind: a panic of the override unwinds the task.
FormatResponse(c, override) ==
    /\ conn[c].pc = "dispatched"
    /\ conn[c].error = "none" => override = [tag |-> "Panic"]
    /\ on_error = "None" => override = [tag |-> "Panic"]
    /\ conn' = [conn EXCEPT ![c] =
                  IF conn[c].error = "none"
                  THEN [@ EXCEPT !.pc = "responding"]
                  ELSE LET r == handle_error(conn[c].error, override) IN
                       IF r.tag = "Panic"
                       THEN Ended("aborted", conn[c].dispatch)
                       ELSE [@ EXCEPT !.pc = "responding",
                                      !.response = r.response]]
    /\ UNCHANGED <<max_connections, tls_config, on_error, connection_counter,
                   loop_pc, max_reached, accepted, nonSupVars>>

\* app.rs:458-459: write_all; its failure is the task's Err
WriteResponse(c, write_ok) ==
    /\ conn[c].pc = "responding"
    /\ conn' = [conn EXCEPT ![c] =
                  [@ EXCEPT !.pc = "finishing",
                            !.result = IF write_ok THEN "Written" ELSE "Err"]]
    /\ UNCHANGED <<max_connections, tls_config, on_error, connection_counter,
                   loop_pc, max_reached, accepted, nonSupVars>>

\* app.rs:344-347: the task prints an Err and decrements the counter
TaskFinish(c) ==
    /\ conn[c].pc = "finishing"
    /\ connection_counter' = connection_counter - 1
    /\ conn' = [conn EXCEPT ![c] = Ended("closed", "none")]
    /\ UNCHANGED <<max_connections, tls_config, on_error,
                   loop_pc, max_reached, accepted, nonSupVars>>

SupNext ==
    \/ LoopAtCeiling
    \/ LoopBelowCeiling
    \/ AcceptOk
    \/ AcceptErr
    \/ \E c \in ConnIds, ok \in BOOLEAN : TaskStart(c, ok)
    \/ \E c \in ConnIds, o \in ReadOutcomes : ReadRequest(c, o)
    \/ \E c \in ConnIds, o \in HandleOutcomes : Dispatch(c, o)
    \/ \E c \in ConnIds, o \in OverrideOutcomes : FormatResponse(c, o)
    \/ \E c \in ConnIds, ok \in BOOLEAN : WriteResponse(c, ok)
    \/ \E c \in ConnIds : TaskFinish(c)

(***************************************************************************)
(* The middleware pipeline (src/src/middleware/mod.rs, router/mod.rs).     *)
(*                                                                         *)
(* A result is [ok, by, marks]: Ok or Err, who produced it, and the        *)
(* middlewares that rewrote it on the way out.  A middleware is [id, kind];*)
(* the kinds are the ways an implementation of Middleware::call can use    *)
(* its continuation:                                                       *)
(*   pass       awaits next.handle(req) once and returns what it got       *)
(*              (Logger of examples/middleware.rs)                         *)
(*   tag        awaits next.handle(req)? once and rewrites an Ok response  *)
(*              (Cors, SecurityHeaders, CompressionMiddleware)             *)
(*   short_err  returns Err without calling next (AuthMiddleware,          *)
(*              RateLimiter over the limit)                                *)
(*   short_ok   returns a response without calling next (Cors on OPTIONS)  *)
(*   twice      calls next.handle a second time and returns the last       *)
(*              result: Next::handle borrows &self and Next is Clone, so   *)
(*              the continuation stays usable after a call                 *)
(***************************************************************************)
MiddlewareKinds == {"pass", "tag", "short_err", "short_ok", "twice"}

\* who ran: a middleware or a handler of a table, numbered as registered
Id(t, n) == [t |-> t, n |-> n]
Nobody == Id("none", 0)
NoResult == [ok |-> FALSE, by |-> Nobody, marks |-> <<>>]

Enter(m) == [ev |-> "enter", id |-> m.id, got |-> NoResult, ret |-> NoResult]
Exit(m, got, ret) == [ev |-> "exit", id |-> m.id, got |-> got, ret |-> ret]
HandlerRan(h) == [ev |-> "handler", id |-> h.id, got |-> NoResult, ret |-> NoResult]

\* Next::new_handler(handler): the terminal continuation
Next_new_handler(handler) == [kind |-> "handler", handler |-> handler]

\* Next::new_handler(Box::new(move |req| middleware.call(req, next.clone())))
Next_wrap(middleware, next) ==
    [kind |-> "middleware", middleware |-> middleware, next |-> next]

RECURSIVE Next_handle(_)
RECURSIVE Middleware_call(_, _)

\* Handler::handle: the route's handler runs and returns its result
Handler_handle(handler) ==
    [trace  |-> <<HandlerRan(handler)>>,
     result |-> [ok |-> handler.ok, by |-> handler.id, marks |-> <<>>]]

\* Next::handle (middleware/mod.rs:32-34): run what the continuation holds
Next_handle(next) ==
    IF next.kind = "handler"
    THEN Handler_handle(next.handler)
    ELSE Middleware_call(next.middleware, next.next)

\* Middleware::call(req, next), by kind of middleware
Middleware_call(m, next) ==
    CASE m.kind = "pass" ->
           LET r == Next_handle(next) IN
           [trace  |-> <<Enter(m)>> \o r.trace \o <<Exit(m, r.result, r.result)>>,
            result |-> r.result]
      [] m.kind = "tag" ->
           LET r   == Next_handle(next)
               out == IF r.result.ok
                      THEN [r.result EXCEPT !.marks = Append(@, m.id)]
                      ELSE r.result
           IN
           [trace  |-> <<Enter(m)>> \o r.trace \o <<Exit(m, r.result, out)>>,
            result |-> out]
      [] m.kind = "twice" ->
           LET r1 == Next_handle(next)
               r2 == Next_handle(next)
           IN
           [trace  |-> <<Enter(m)>> \o r1.trace \o r2.trace
                       \o <<Exit(m, r2.result, r2.result)>>,
            result |-> r2.result]
      [] m.kind \in {"short_err", "short_ok"} ->
           LET out == [ok |-> m.kind = "short_ok", by |-> m.id, marks |-> <<>>] IN
           [trace  |-> <<Enter(m), Exit(m, NoResult, out)>>,
            result |-> out]

\* the loop of MiddlewareManager::call (middleware/mod.rs:74-80): from the
\* last middleware down to the first, wrap `next` in a continuation that
\* calls the middleware with it
RECURSIVE WrapFrom_stopAtOne(_, _, _)
WrapFrom_stopAtOne(middlewares, index, next) ==
    IF index <= 1
    THEN next
    ELSE WrapFrom_stopAtOne(middlewares, index - 1,
                            Next_wrap(middlewares[index], next))

RECURSIVE WrapFrom(_, _, _)
WrapFrom(middlewares, index, next) ==
    IF index = 0
    THEN next
    ELSE WrapFrom(middlewares, index - 1, Next_wrap(middlewares[index], next))

\* the loop run from the first middleware up to the last
RECURSIVE WrapUpTo(_, _, _)
WrapUpTo(middlewares, index, next) ==
    IF index > Len(middlewares)
    THEN next
    ELSE WrapUpTo(middlewares, index + 1, Next_wrap(middlewares[index], next))

MiddlewareManager_call_forward(middlewares, next) ==
    Next_handle(WrapUpTo(middlewares, 1, next))

\* MiddlewareManager::call (middleware/mod.rs:73-82)
MiddlewareManager_call(middlewares, next) ==
    Next_handle(WrapFrom(middlewares, Len(middlewares), next))

\* Route::handle running the chain again when it ended in an error
Route_handle_retry(r) ==
    LET first == MiddlewareManager_call(r.middlewares,
                                        Next_new_handler(r.handler))
    IN IF first.result.ok
       THEN first
       ELSE [trace  |-> first.trace \o first.trace,
             result |-> first.result]

\* Route::handle (router/mod.rs:13-15)
Route_handle(r) ==
    MiddlewareManager_call(r.middlewares, Next_new_handler(r.handler))

\* all sequences over S of length at most n
SeqsUpTo(S, n) == UNION {[1..k -> S] : k \in 0..n}

\* the chains of SpecChain: middleware i of the chain has id Id("mw", i)
Chains ==
    {[i \in 1..Len(ks) |-> [id |-> Id("mw", i), kind |-> ks[i]]] :
        ks \in SeqsUpTo(MiddlewareKinds, MaxChain)}

ChainIdle ==
    /\ route = [middlewares |-> <<>>, handler |-> [id |-> Id("handler", 0), ok |-> TRUE]]
    /\ chain_pc = "idle"
    /\ chain_trace = <<>>
    /\ chain_result = NoResult

ChainInit ==
    /\ route \in {[middlewares |-> c, handler |-> [id |-> Id("handler", 0), ok |-> ok]] :
                    c \in Chains, ok \in BOOLEAN}
    /\ chain_pc = "ready"
    /\ chain_trace = <<>>
    /\ chain_result = NoResult

\* one request is handled by the route
RunChain ==
    /\ chain_pc = "ready"
    /\ LET r == Route_handle(route) IN
       /\ chain_trace' = r.trace
       /\ chain_result' = r.result
    /\ chain_pc' = "done"
    /\ UNCHANGED <<route, nonChainVars>>

SupIdle ==
    /\ max_connections = 1
    /\ tls_config = FALSE
    /\ on_error = "None"
    /\ connection_counter = 0
    /\ loop_pc = "off"
    /\ max_reached = FALSE
    /\ accepted = 0
    /\ conn = [c \in ConnIds |-> NotAccepted]


(***************************************************************************)
(* Paths.  A string is a sequence of one-character strings.                *)
(***************************************************************************)
\* str::trim_end_matches('/')
RECURSIVE trim_end_matches(_, _)
trim_end_matches(s, ch) ==
    IF s # <<>> /\ s[Len(s)] = ch
    THEN trim_end_matches(SubSeq(s, 1, Len(s) - 1), ch)
    ELSE s

\* str::trim_start_matches('/')
RECURSIVE trim_start_matches(_, _)
trim_start_matches(s, ch) ==
    IF s # <<>> /\ s[1] = ch
    THEN trim_start_matches(SubSeq(s, 2, Len(s)), ch)
    ELSE s

\* str::contains(ch)
contains(s, ch) == \E i \in 1..Len(s) : s[i] = ch

\* str::split(ch): the pieces between the occurrences of ch
RECURSIVE split(_, _)
split(s, ch) ==
    IF ~contains(s, ch)
    THEN <<s>>
    ELSE LET i == CHOOSE k \in 1..Len(s) :
                      s[k] = ch /\ \A j \in 1..(k - 1) : s[j] # ch
         IN <<SubSeq(s, 1, i - 1)>> \o split(SubSeq(s, i + 1, Len(s)), ch)

\* router/mod.rs:120-121: the key Router::add stores a path under
Router_add_path(path) ==
    LET p == trim_end_matches(path, "/") IN
    IF p = <<>> THEN <<"/">> ELSE p

\* app.rs:380-383: the path of a request target
Request_path_trimOne(target) ==
    LET path == split(target, "?")[1]
        p    == IF path # <<>> /\ path[Len(path)] = "/"
                THEN SubSeq(path, 1, Len(path) - 1) ELSE path
    IN IF p = <<>> THEN <<"/">> ELSE p
Request_path(target) ==
    LET path == split(target, "?")[1]
        p    == trim_end_matches(path, "/")
    IN IF p = <<>> THEN <<"/">> ELSE p

\* router/mod.rs:143: the key Router::mount stores a sub-table path under
Router_mount_path(prefix, key) == trim_end_matches(prefix \o key, "/")

\* Method::from_string (http/request.rs:20-33)
Methods ==
    {"GET", "POST", "PUT", "DELETE", "HEAD", "CONNECT", "OPTIONS", "TRACE",
     "PATCH"}
Method_from_string_unknownPost(token) ==
    IF token \in Methods THEN token ELSE "POST"
Method_from_string(token) == IF token \in Methods THEN token ELSE "GET"

(***************************************************************************)
(* The route table (src/src/router/mod.rs).                                *)
(*   Route  = [middlewares, handler]                                       *)
(*   Router = [middlewares, routes, dynamic_routes]; routes maps a path to *)
(*            a map from method to Route                                   *)
(***************************************************************************)
\* HashMap::new()
EmptyMap == <<>>

\* HashMap::insert(k, v)
Insert(map, k, v) == (k :> v) @@ map

\* Router::new (router/mod.rs:26-32)
Router_new == [middlewares |-> <<>>, routes |-> EmptyMap, dynamic_routes |-> <<>>]

\* Router::add with a route that records no chain
Router_add_noSnapshot(r, method, path, handler) ==
    LET p      == Router_add_path(path)
        routes == IF p \in DOMAIN r.routes THEN r.routes
                  ELSE Insert(r.routes, p, EmptyMap)
        dyn    == IF contains(p, ":") THEN Append(r.dynamic_routes, p)
                  ELSE r.dynamic_routes
        rt     == [middlewares |-> <<>>, handler |-> handler]
    IN [r EXCEPT !.routes = [routes EXCEPT ![p] = Insert(@, method, rt)],
                 !.dynamic_routes = dyn]

\* Router::add (router/mod.rs:115-135)
Router_add(r, method, path, handler) ==
    LET p      == Router_add_path(path)
        routes == IF p \in DOMAIN r.routes THEN r.routes
                  ELSE Insert(r.routes, p, EmptyMap)
        dyn    == IF contains(p, ":") THEN Append(r.dynamic_routes, p)
                  ELSE r.dynamic_routes
        rt     == [middlewares |-> r.middlewares, handler |-> handler]
    IN [r EXCEPT !.routes = [routes EXCEPT ![p] = Insert(@, method, rt)],
                 !.dynamic_routes = dyn]

\* Router::middleware (router/mod.rs:137-139), MiddlewareManager::add
Router_middleware(r, m) == [r EXCEPT !.middlewares = Append(@, m)]

\* MiddlewareManager::append (middleware/mod.rs:68-71)
MiddlewareManager_append_swapped(self, other) == other \o self
MiddlewareManager_append(self, other) == self \o other

\* n copies of x
RECURSIVE Repeat(_, _)
Repeat(x, n) == IF n = 0 THEN <<>> ELSE <<x>> \o Repeat(x, n - 1)

\* Router::mount appending the route's chain to the table's own list
\* instead of to a clone of it
Router_mount_key_inPlace(r, prefix, key, value) ==
    LET p == Router_mount_path(prefix, key) IN
    IF DOMAIN value = {}
    THEN r
    ELSE LET routes == IF p \in DOMAIN r.routes THEN r.routes
                       ELSE Insert(r.routes, p, EmptyMap)
             merged == [m \in DOMAIN value |->
                          [middlewares |->
                             MiddlewareManager_append(r.middlewares,
                                                      value[m].middlewares),
                           handler |-> value[m].handler]]
             grown  == MiddlewareManager_append(
                           r.middlewares,
                           value[CHOOSE m \in DOMAIN value : TRUE].middlewares)
         IN [r EXCEPT
               !.middlewares = grown,
               !.routes = [routes EXCEPT ![p] = merged @@ @],
               !.dynamic_routes =
                   IF contains(p, ":")
                   THEN @ \o Repeat(p, Cardinality(DOMAIN value))
                   ELSE @]

\* router/mod.rs:143-161: one (key, value) of the sub-table's routes.
\* Each method of the key pushes the path on dynamic_routes and inserts a
\* Route whose chain is the table's own middlewares, then the route's.
Router_mount_key(r, prefix, key, value) ==
    LET p == Router_mount_path(prefix, key) IN
    IF DOMAIN value = {}
    THEN r
    ELSE LET routes == IF p \in DOMAIN r.routes THEN r.routes
                       ELSE Insert(r.routes, p, EmptyMap)
             merged == [m \in DOMAIN value |->
                          [middlewares |->
                             MiddlewareManager_append(r.middlewares,
                                                      value[m].middlewares),
                           handler |-> value[m].handler]]
         IN [r EXCEPT
               !.routes = [routes EXCEPT ![p] = merged @@ @],
               !.dynamic_routes =
                   IF contains(p, ":")
                   THEN @ \o Repeat(p, Cardinality(DOMAIN value))
                   ELSE @]

\* the loop of Router::mount over router.routes.into_iter(), in the order
\* the HashMap yields its keys
RECURSIVE Router_mount_from(_, _, _, _, _)
Router_mount_from(r, prefix, subtable, order, i) ==
    IF i > Len(order)
    THEN r
    ELSE Router_mount_from(
             Router_mount_key(r, prefix, order[i], subtable.routes[order[i]]),
             prefix, subtable, order, i + 1)

\* Router::mount (router/mod.rs:141-163)
Router_mount(r, prefix, subtable, order) ==
    Router_mount_from(r, prefix, subtable, order, 1)

\* the orders in which a HashMap with these keys can be iterated
KeyOrders(keys) ==
    {o \in [1..Cardinality(keys) -> keys] :
        \A i, j \in 1..Cardinality(keys) : o[i] = o[j] => i = j}

(***************************************************************************)
(* Dispatch (Application::handle, src/src/app.rs:476-567).                 *)
(* A request is [method, path, params].                                    *)
(***************************************************************************)
\* str::starts_with(ch)
starts_with(s, ch) == s # <<>> /\ s[1] = ch

\* match_dynamic_path without the comparison of the lengths: zip() stops at
\* the shorter of the two
match_dynamic_path_zipOnly(pattern, path) ==
    LET pattern_parts == split(pattern, "/")
        path_parts    == split(path, "/")
        n             == IF Len(pattern_parts) < Len(path_parts)
                         THEN Len(pattern_parts) ELSE Len(path_parts)
        colon         == {i \in 1..n : starts_with(pattern_parts[i], ":")}
    IN
    IF \E i \in (1..n) \ colon : pattern_parts[i] # path_parts[i]
    THEN [some |-> FALSE, params |-> EmptyMap]
    ELSE [some   |-> TRUE,
          params |-> [name \in {Tail(pattern_parts[i]) : i \in colon} |->
                        LET i == CHOOSE k \in colon :
                                   /\ Tail(pattern_parts[k]) = name
                                   /\ \A j \in colon :
                                        Tail(pattern_parts[j]) = name => j <= k
                        IN path_parts[i]]]

\* Application::match_dynamic_path (app.rs:638-657): None, or Some(params);
\* a later segment with the same name overwrites an earlier one
match_dynamic_path(pattern, path) ==
    LET pattern_parts == split(pattern, "/")
        path_parts    == split(path, "/")
        n             == Len(pattern_parts)
        colon         == {i \in 1..n : starts_with(pattern_parts[i], ":")}
    IN
    IF n # Len(path_parts)
    THEN [some |-> FALSE, params |-> EmptyMap]
    ELSE IF \E i \in (1..n) \ colon : pattern_parts[i] # path_parts[i]
    THEN [some |-> FALSE, params |-> EmptyMap]
    ELSE [some   |-> TRUE,
          params |-> [name \in {Tail(pattern_parts[i]) : i \in colon} |->
                        LET i == CHOOSE k \in colon :
                                   /\ Tail(pattern_parts[k]) = name
                                   /\ \A j \in colon :
                                        Tail(pattern_parts[j]) = name => j <= k
                        IN path_parts[i]]]

\* the parameter names of a pattern: its colon segments without the colon
ParamNames(pattern) ==
    LET parts == split(pattern, "/") IN
    {Tail(parts[i]) : i \in {k \in 1..Len(parts) : starts_with(parts[k], ":")}}

\* a handler registered for a path: it answers Ok, after reading the
\* parameters its pattern names (examples/routing.rs:27-29 unwraps
\* req.params.get("id")); reading an unbound parameter fails
NewHandler(id, path) ==
    [id |-> id, ok |-> TRUE, needs |-> ParamNames(Router_add_path(path))]

\* the route as it runs on a request that carries `params`
Bound(rt, params) ==
    [rt EXCEPT !.handler.ok = @ /\ rt.handler.needs \subseteq DOMAIN params]

\* the table with handlers that answer Ok (ok) or Err (~ok) to the request
Behaving(r, ok) ==
    [r EXCEPT !.routes =
       [p \in DOMAIN @ |->
          [m \in DOMAIN @[p] |-> [@[p][m] EXCEPT !.handler.ok = @ /\ ok]]]]

\* what handle() resolves a request to: the route to run, how, and the
\* parameters bound into the request when it runs
NoRoute ==
    [middlewares |-> <<>>,
     handler |-> [id |-> Nobody, ok |-> FALSE, needs |-> {}]]
Miss == [kind |-> "miss", route |-> NoRoute, params |-> EmptyMap]
Target(kind, rt, params) == [kind |-> kind, route |-> rt, params |-> params]

\* app.rs:480-492 and 500-514: the routes of one path, by method, with the
\* HEAD and OPTIONS fallbacks to the GET route.  `head_params` are the
\* parameters the HEAD fallback runs with.
ByMethod_anyToGet(routes, req, params, head_params) ==
    IF req.method \in DOMAIN routes
    THEN Target("route", routes[req.method], params)
    ELSE IF "GET" \in DOMAIN routes
    THEN Target("route", routes["GET"], params)
    ELSE Miss
ByMethod(routes, req, params, head_params) ==
    IF req.method \in DOMAIN routes
    THEN Target("route", routes[req.method], params)
    ELSE IF req.method = "HEAD" /\ "GET" \in DOMAIN routes
    THEN Target("head", routes["GET"], head_params)
    ELSE IF req.method = "OPTIONS" /\ "GET" \in DOMAIN routes
    THEN Target("options", routes["GET"], params)
    ELSE Miss

\* app.rs:479-494: the exact entry of the path
StaticTarget(r, req) ==
    IF req.path \in DOMAIN r.routes
    THEN ByMethod(r.routes[req.path], req, req.params, req.params)
    ELSE Miss

\* app.rs:496-518: the dynamic patterns, in order, from the i-th on.  The
\* HEAD fallback runs with req.params as they were (app.rs:506).
RECURSIVE DynamicTarget(_, _, _)
DynamicTarget(r, req, i) ==
    IF i > Len(r.dynamic_routes)
    THEN Miss
    ELSE LET dynamic_path == r.dynamic_routes[i]
             m == match_dynamic_path(dynamic_path, req.path)
             t == IF m.some /\ dynamic_path \in DOMAIN r.routes
                  THEN ByMethod(r.routes[dynamic_path], req, m.params,
                                req.params)
                  ELSE Miss
         IN IF t.kind # "miss" THEN t ELSE DynamicTarget(r, req, i + 1)

\* the route a request is resolved to
ResolveTarget(r, req) ==
    LET s == StaticTarget(r, req) IN
    IF s.kind # "miss" THEN s ELSE DynamicTarget(r, req, 1)

\* the handler handle_options substitutes (app.rs:542)
OptionsHandler == [id |-> Id("options", 0), ok |-> TRUE, needs |-> {}]

\* Application::handle_head (app.rs:526-537): the GET route runs on the
\* request; the body of an Ok response is emptied by the caller below
handle_head(rt, params) == Route_handle(Bound(rt, params))

\* Application::handle_options (app.rs:539-545): the route's middlewares
\* around a handler that answers an empty 200
handle_options_keepHandler(rt, params) == Route_handle(Bound(rt, params))
handle_options(rt, params) ==
    Route_handle([middlewares |-> rt.middlewares, handler |-> OptionsHandler])

\* the outcome of handle(): which route ran and how, with which parameters,
\* what ran, the result, and whether the body was emptied (handle_head)
Outcome(kind, t, run, emptied) ==
    [kind |-> kind, handler |-> t.route.handler.id, params |-> t.params,
     needs |-> t.route.handler.needs,
     trace |-> run.trace, result |-> run.result, body_emptied |-> emptied]

\* Application::handle (app.rs:476-524) with handle_head (526-537),
\* handle_options (539-545) and handle_static_file (555-567); `files` are
\* the request paths that resolve to a regular file under static_dir
Application_handle(r, files, req) ==
    LET t == ResolveTarget(r, req) IN
    CASE t.kind = "route" ->
           Outcome("route", t, Route_handle(Bound(t.route, t.params)), FALSE)
      [] t.kind = "head" ->
           LET run == handle_head(t.route, t.params) IN
           Outcome("head", t, run, run.result.ok)
      [] t.kind = "options" ->
           Outcome("options", t, handle_options(t.route, t.params), FALSE)
      [] OTHER ->
           IF req.path \in files
           THEN Outcome("static", t,
                        [trace |-> <<>>,
                         result |-> [ok |-> TRUE, by |-> Id("static", 0),
                                     marks |-> <<>>]],
                        FALSE)
           ELSE Outcome("not_found", t,
                        [trace |-> <<>>,
                         result |-> [ok |-> FALSE, by |-> Nobody,
                                     marks |-> <<>>]],
                        FALSE)

\* app.rs:369-430: the Request built from the request line
Request(token, target) ==
    [method |-> Method_from_string(token),
     path   |-> Request_path(target),
     params |-> EmptyMap]

\* a request line dispatched on the application's table, the handlers
\* answering Ok (ok) or Err (~ok)
ServeWith(token, target, ok) ==
    Application_handle(Behaving(router, ok), static_files,
                       Request(token, target))

\* a request line dispatched on the application's table
Serve(token, target) == ServeWith(token, target, TRUE)

(***************************************************************************)
(* SpecRouter: the application is configured, then serves requests.        *)
(***************************************************************************)
\* paths given to the registration calls, mount prefixes, request lines
AppPaths == {<<>>, <<"/", "a", "/">>}
SubPaths == {<<"/">>, <<"/", "a">>, <<"/", ":", "x">>}
Prefixes == {<<>>, <<"/">>, <<"/", "a">>, <<"/", "a", "/">>}
AppMethods == {"GET", "POST"}
SubMethods == {"GET"}
ReqTokens == {"GET"}
ReqTargets == {<<"/">>, <<"/", "a", "/", "/">>, <<"/", "a", "/", "a">>}

NoDispatch ==
    [token |-> "", target |-> <<>>, handler_ok |-> TRUE,
     outcome |-> Outcome("none", Miss, [trace |-> <<>>, result |-> NoResult],
                         FALSE)]

Call(op, method, path, subtable) ==
    [op |-> op, method |-> method, path |-> path, subtable |-> subtable,
     id |-> Id("app", next_id.app + 1),
     middlewares |-> router.middlewares]

Mounts == {i \in 1..Len(calls) : calls[i].op = "mount"}
CallsMade ==
    next_id.app + next_id.sub
      + Cardinality({i \in 1..Len(calls) :
                       calls[i].op \in {"mount", "static_dir"}})

RouterIdle ==
    /\ router = Router_new
    /\ sub = Router_new
    /\ next_id = [app |-> 0, sub |-> 0]
    /\ static_files = {}
    /\ phase = "idle"
    /\ calls = <<>>
    /\ last = NoDispatch

RouterInit ==
    /\ router = Router_new
    /\ sub = Router_new
    /\ next_id = [app |-> 0, sub |-> 0]
    /\ static_files = {}
    /\ phase = "config"
    /\ calls = <<>>
    /\ last = NoDispatch

\* Application::get, post, ... (app.rs:155-265)
AppAdd(method, path) ==
    /\ phase = "config"
    /\ CallsMade < MaxCalls
    /\ LET h == NewHandler(Id("app", next_id.app + 1), path) IN
       router' = Router_add(router, method, path, h)
    /\ next_id' = [next_id EXCEPT !.app = @ + 1]
    /\ calls' = Append(calls, Call("add", method, path, Router_new))
    /\ UNCHANGED <<sub, static_files, phase, last, nonRouterVars>>

\* Application::middleware (app.rs:271-273)
AppMiddleware(kind) ==
    /\ phase = "config"
    /\ CallsMade < MaxCalls
    /\ LET m == [id |-> Id("app", next_id.app + 1), kind |-> kind] IN
       router' = Router_middleware(router, m)
    /\ next_id' = [next_id EXCEPT !.app = @ + 1]
    /\ calls' = Append(calls, Call("middleware", "", <<>>, Router_new))
    /\ UNCHANGED <<sub, static_files, phase, last, nonRouterVars>>

\* Router::get, ... on the table that will be mounted
SubAdd(method, path) ==
    /\ phase = "config"
    /\ CallsMade < MaxCalls
    /\ LET h == NewHandler(Id("sub", next_id.sub + 1), path) IN
       sub' = Router_add(sub, method, path, h)
    /\ next_id' = [next_id EXCEPT !.sub = @ + 1]
    /\ UNCHANGED <<router, static_files, phase, calls, last, nonRouterVars>>

\* Router::middleware on the table that will be mounted
SubMiddleware ==
    /\ phase = "config"
    /\ CallsMade < MaxCalls
    /\ LET m == [id |-> Id("sub", next_id.sub + 1), kind |-> "pass"] IN
       sub' = Router_middleware(sub, m)
    /\ next_id' = [next_id EXCEPT !.sub = @ + 1]
    /\ UNCHANGED <<router, static_files, phase, calls, last, nonRouterVars>>

\* Application::mount (app.rs:280-282): the table is moved into the call
Mount(prefix, order) ==
    /\ phase = "config"
    /\ CallsMade < MaxCalls
    /\ router' = Router_mount(router, prefix, sub, order)
    /\ calls' = Append(calls, Call("mount", "", prefix, sub))
    /\ sub' = Router_new
    /\ UNCHANGED <<next_id, static_files, phase, last, nonRouterVars>>

\* Application::listen (app.rs:294): the configuration is moved into the
\* server and does not change any more
Listen ==
    /\ phase = "config"
    /\ phase' = "serving"
    /\ UNCHANGED <<router, sub, next_id, static_files, calls, last,
                   nonRouterVars>>

\* handle_connection (app.rs:369-432): a request line is parsed and handled
DispatchRequest(token, target, ok) ==
    /\ phase = "serving"
    /\ last' = [token |-> token, target |-> target, handler_ok |-> ok,
                outcome |-> ServeWith(token, target, ok)]
    /\ UNCHANGED <<router, sub, next_id, static_files, phase, calls,
                   nonRouterVars>>

NextRouter ==
    \/ \E m \in AppMethods, p \in AppPaths : AppAdd(m, p)
    \/ AppMiddleware("pass")
    \/ \E m \in SubMethods, p \in SubPaths : SubAdd(m, p)
    \/ SubMiddleware
    \/ \E p \in Prefixes, o \in KeyOrders(DOMAIN sub.routes) : Mount(p, o)
    \/ Listen
    \/ \E t \in ReqTokens, p \in ReqTargets : DispatchRequest(t, p, TRUE)

InitRouter ==
    RouterInit /\ SupIdle /\ ChainIdle /\ PluginsIdle /\ ServiceIdle
SpecRouter == InitRouter /\ [][NextRouter]_vars

(***************************************************************************)
(* The response of a dispatched request (app.rs:432-457, default error     *)
(* formatter).                                                             *)
(***************************************************************************)
\* a handler ran in the chain
HandlerInvoked(outcome) ==
    \E i \in 1..Len(outcome.trace) : outcome.trace[i].ev = "handler"

\* the error of a failed dispatch: NotFound of handle(); the panic of a
\* handler that reads an unbound parameter (caught at app.rs:432-444); the
\* Err a handler returns (examples/routing.rs:36); the Err of a middleware
\* that refuses the request (examples/middleware.rs AuthMiddleware)
ErrorOf(outcome) ==
    IF outcome.kind = "not_found" THEN "NotFound"
    ELSE IF ~HandlerInvoked(outcome) THEN "Unauthorized"
    ELSE IF ~(outcome.needs \subseteq DOMAIN outcome.params) THEN "PanicError"
    ELSE "BadRequest"

\* the response written: status, headers added to it, and whether the body
\* is empty.  A handler and a static file answer 200 with a body, the
\* handler of handle_options Response::new(200), a middleware that answers
\* in place of the chain Response::new(204) (Cors, security.rs:192), and
\* Response::error a JSON body (response.rs:102-113).
ResponseOf(outcome) ==
    LET res == outcome.result IN
    IF res.ok
    THEN [status     |-> IF HandlerInvoked(outcome) \/ outcome.kind = "static"
                         THEN 200 ELSE 204,
          headers    |-> res.marks,
          body_empty |-> \/ outcome.body_emptied
                         \/ res.by = OptionsHandler.id
                         \/ ~(HandlerInvoked(outcome) \/ outcome.kind = "static")]
    ELSE [status     |-> Response_error(ErrorOf(outcome)).status,
          headers    |-> <<>>,
          body_empty |-> FALSE]

(***************************************************************************)
(* SpecDispatch: routes with static and dynamic paths behind middlewares   *)
(* that may refuse a request; requests of every dispatched method.         *)
(***************************************************************************)
\* routes and middlewares registered before listen() in SpecDispatch
MaxRoutes == 3

DispatchRoutes ==
    {[method |-> "GET",  path |-> <<"/", "a">>],
     [method |-> "GET",  path |-> <<"/", ":", "x">>],
     [method |-> "POST", path |-> <<"/", ":", "x">>],
     [method |-> "GET",  path |-> <<"/", ":", "y">>],
     [method |-> "GET",  path |-> <<"/", ":", "x", "/", ":", "x">>]}
DispatchKinds == {"pass", "short_err"}
DispatchTokens == {"GET", "POST", "HEAD", "OPTIONS", "get"}
DispatchTargets == {<<"/", "a">>, <<"/", "a", "/", "b">>}

NextDispatch ==
    \/ \E rt \in DispatchRoutes :
          CallsMade < MaxRoutes /\ AppAdd(rt.method, rt.path)
    \/ \E k \in DispatchKinds : CallsMade < MaxRoutes /\ AppMiddleware(k)
    \/ Listen
    \/ \E t \in DispatchTokens, p \in DispatchTargets, ok \in BOOLEAN :
          DispatchRequest(t, p, ok)

SpecDispatch == InitRouter /\ [][NextDispatch]_vars

(***************************************************************************)
(* Static files (app.rs:555-567).  A file-system path is a sequence of     *)
(* components; a component is a string.                                    *)
(***************************************************************************)
\* the file system of the server: /p with the file f and the directory d,
\* the file /s outside of /p, the link /p/l to /s and the link /q to /p
FsNodes ==
    (<<>> :> "dir") @@ (<< <<"p">> >> :> "dir")
      @@ (<< <<"p">>, <<"f">> >> :> "file")
      @@ (<< <<"p">>, <<"d">> >> :> "dir")
      @@ (<< <<"s">> >> :> "file")
FsLinks ==
    (<< <<"p">>, <<"l">> >> :> << <<"s">> >>)
      @@ (<< <<"q">> >> :> << <<"p">> >>)

\* Option<PathBuf>
NoDir == [some |-> FALSE, dir |-> <<>>]
SomeDir(dir) == [some |-> TRUE, dir |-> dir]

\* fs::canonicalize: the components are resolved from `cur` on, one after
\* the other; a missing entry and a step below a file are errors
RECURSIVE Resolve(_, _)
Resolve(cur, rest) ==
    IF rest = <<>>
    THEN [ok |-> TRUE, path |-> cur]
    ELSE LET c == Head(rest) IN
         IF c \in {<<>>, <<".">>}
         THEN Resolve(cur, Tail(rest))
         ELSE IF FsNodes[cur] # "dir"
         THEN [ok |-> FALSE, path |-> <<>>]
         ELSE IF c = <<".", ".">>
         THEN Resolve(IF cur = <<>> THEN cur
                      ELSE SubSeq(cur, 1, Len(cur) - 1), Tail(rest))
         ELSE IF Append(cur, c) \in DOMAIN FsLinks
         THEN Resolve(FsLinks[Append(cur, c)], Tail(rest))
         ELSE IF Append(cur, c) \in DOMAIN FsNodes
         THEN Resolve(Append(cur, c), Tail(rest))
         ELSE [ok |-> FALSE, path |-> <<>>]

canonicalize(path) == Resolve(<<>>, path)

\* Path::starts_with: component-wise prefix
Path_starts_with(path, base) ==
    /\ Len(base) <= Len(path)
    /\ SubSeq(path, 1, Len(base)) = base

\* Path::is_file
is_file(path) == path \in DOMAIN FsNodes /\ FsNodes[path] = "file"

\* static_dir.join(path.trim_start_matches('/')) (app.rs:557)
StaticFilePath(dir, path) == dir \o split(trim_start_matches(path, "/"), "/")

\* Application::handle_static_file (app.rs:555-567): a response or None
handle_static_file_noGuard(static_dir, path) ==
    /\ static_dir.some
    /\ LET canonical_path == canonicalize(StaticFilePath(static_dir.dir, path))
       IN /\ canonical_path.ok
          /\ canonicalize(static_dir.dir).ok
          /\ is_file(canonical_path.path)
handle_static_file(static_dir, path) ==
    /\ static_dir.some
    /\ LET canonical_path == canonicalize(StaticFilePath(static_dir.dir, path))
           root           == canonicalize(static_dir.dir)
       IN /\ canonical_path.ok
          /\ root.ok
          /\ Path_starts_with(canonical_path.path, root.path)
          /\ is_file(canonical_path.path)

(***************************************************************************)
(* SpecStatic: routes and a static directory.                              *)
(***************************************************************************)
StaticDirs == {<< <<"p">> >>, << <<"q">> >>, << <<"n">> >>}
StaticRoutePaths == {<<"/", "f">>, <<"/", ":", "x">>}
StaticMethods == {"GET", "POST"}
StaticTokens == {"GET", "POST", "HEAD", "OPTIONS"}
StaticTargets ==
    {<<"/", "f">>, <<"/", ".", ".", "/", "s">>, <<"/", "l">>, <<"/", "d">>,
     <<"/", "x">>}

\* the request paths of the model that handle_static_file answers
ServedPaths(static_dir) ==
    {path \in {Request_path(t) : t \in StaticTargets} :
       handle_static_file(static_dir, path)}

\* Application::static_dir (app.rs:471-474)
StaticDir(dir) ==
    /\ phase = "config"
    /\ CallsMade < MaxCalls
    /\ static_files' = ServedPaths(SomeDir(dir))
    /\ calls' = Append(calls, Call("static_dir", "", dir, Router_new))
    /\ UNCHANGED <<router, sub, next_id, phase, last, nonRouterVars>>

NextStatic ==
    \/ \E m \in StaticMethods, p \in StaticRoutePaths :
          CallsMade < MaxRoutes /\ AppAdd(m, p)
    \/ \E dir \in StaticDirs : CallsMade < MaxRoutes /\ StaticDir(dir)
    \/ Listen
    \/ \E t \in StaticTokens, p \in StaticTargets : DispatchRequest(t, p, TRUE)

SpecStatic == InitRouter /\ [][NextStatic]_vars

\* the static directory the application is configured with
ConfiguredDir ==
    LET sets == {i \in 1..Len(calls) : calls[i].op = "static_dir"} IN
    IF sets = {} THEN NoDir
    ELSE SomeDir(calls[CHOOSE i \in sets : \A j \in sets : j <= i].path)

(***************************************************************************)
(* SpecOverlap: a sub-table with overlapping patterns is mounted.          *)
(***************************************************************************)
OverlapPaths == {<<"/", ":", "x">>, <<"/", ":", "y">>}
OverlapPrefixes == {<<>>, <<"/", "a">>}
OverlapTargets == {<<"/", "a">>, <<"/", "a", "/", "b">>}

NextOverlap ==
    \/ \E p \in OverlapPaths : SubAdd("GET", p)
    \/ \E p \in OverlapPaths : AppAdd("GET", p)
    \/ \E p \in OverlapPrefixes, o \in KeyOrders(DOMAIN sub.routes) :
          Mount(p, o)
    \/ Listen
    \/ \E p \in OverlapTargets : DispatchRequest("GET", p, TRUE)

SpecOverlap == InitRouter /\ [][NextOverlap]_vars

\* a server configured by the calls made so far, from the i-th on; its
\* HashMap hands the paths of the table mounted by call k to mount in the
\* order pick[k]
RECURSIVE Replay(_, _, _)
Replay(r, i, pick) ==
    IF i > Len(calls)
    THEN [r EXCEPT !.middlewares = router.middlewares]
    ELSE LET c  == calls[i]
             rc == [r EXCEPT !.middlewares = c.middlewares]
         IN CASE c.op = "add" ->
                   Replay(Router_add(rc, c.method, c.path,
                                     NewHandler(c.id, c.path)), i + 1, pick)
              [] c.op = "mount" ->
                   Replay(Router_mount(rc, c.path, c.subtable, pick[i]),
                          i + 1, pick)
              [] OTHER -> Replay(rc, i + 1, pick)

\* the iteration orders the HashMaps of the mounted tables can have
Picks ==
    {pick \in [Mounts -> UNION {KeyOrders(DOMAIN calls[i].subtable.routes) :
                                   i \in Mounts}] :
       \A i \in Mounts :
          pick[i] \in KeyOrders(DOMAIN calls[i].subtable.routes)}

(***************************************************************************)
(* The plugin registry and the handles that share it (SpecPlugins).        *)
(***************************************************************************)
\* Application::plugins (app.rs:134-140)
AppPlugins(by, type) ==
    /\ by \in Callable(holders)
    /\ LET r == Plugins_insert(plugins, holders, type) IN
       /\ plugins' = r.data
       /\ last_insert' =
             [some |-> TRUE, by |-> by, type |-> type, panic |-> r.panic,
              app |-> holders.app, accepted |-> holders.accepted,
              before |-> plugins, after |-> r.data]
       /\ IF r.panic
          THEN holders' \in Unwound(holders, by)
          ELSE holders' = holders
    /\ UNCHANGED nonPluginVars

\* #[derive(Clone)] on Application (app.rs:99): the program clones an
\* Application it holds
AppClone(from, c) ==
    /\ from \in Callable(holders)
    /\ c \notin holders.clones
    /\ holders' = [holders EXCEPT !.clones = @ \cup {c}]
    /\ UNCHANGED <<plugins, last_insert, nonPluginVars>>

\* the program drops a clone
AppDrop(c) ==
    /\ c \in holders.clones
    /\ holders' = [holders EXCEPT !.clones = @ \ {c}]
    /\ UNCHANGED <<plugins, last_insert, nonPluginVars>>

\* Application::listen (app.rs:294-321): the Application moves into the
\* accept loop, which does not end
AppListen ==
    /\ holders.app = "config"
    /\ holders' = [holders EXCEPT !.app = "listening"]
    /\ UNCHANGED <<plugins, last_insert, nonPluginVars>>

\* app.rs:324-331: a connection is accepted and its task gets a clone
AppAccept ==
    /\ holders.app = "listening"
    /\ holders.accepted < MaxAccepts
    /\ holders.tasks < MaxConnections
    /\ holders' = [holders EXCEPT !.accepted = @ + 1, !.tasks = @ + 1]
    /\ UNCHANGED <<plugins, last_insert, nonPluginVars>>

\* app.rs:416-430: a task builds a Request, with a clone of Plugins
TaskRequest ==
    /\ holders.requests < holders.tasks
    /\ holders' = [holders EXCEPT !.requests = @ + 1]
    /\ UNCHANGED <<plugins, last_insert, nonPluginVars>>

\* app.rs:432-457: the request is handled and dropped
TaskResponse ==
    /\ holders.requests > 0
    /\ holders' = [holders EXCEPT !.requests = @ - 1]
    /\ UNCHANGED <<plugins, last_insert, nonPluginVars>>

\* app.rs:331-348: a task that handles no request ends
TaskEnd ==
    /\ holders.tasks > holders.requests
    /\ holders' = [holders EXCEPT !.tasks = @ - 1]
    /\ UNCHANGED <<plugins, last_insert, nonPluginVars>>

NextPlugins ==
    \/ \E by \in {TheApp} \cup Clones, type \in PluginTypes :
          AppPlugins(by, type)
    \/ \E from \in {TheApp} \cup Clones, c \in Clones :
          AppClone(from, c)
    \/ \E c \in Clones : AppDrop(c)
    \/ AppListen
    \/ AppAccept
    \/ TaskRequest
    \/ TaskResponse
    \/ TaskEnd

InitPlugins ==
    /\ PluginsInit /\ CodecIdle /\ SupIdle /\ ChainIdle /\ RouterIdle
    /\ ServiceIdle
SpecPlugins == InitPlugins /\ [][NextPlugins]_vars

InitChain ==
    ChainInit /\ SupIdle /\ RouterIdle /\ PluginsIdle /\ ServiceIdle
NextChain == RunChain
SpecChain == InitChain /\ [][NextChain]_vars

Init == SupInit /\ ChainIdle /\ RouterIdle /\ PluginsIdle /\ ServiceIdle
Next == SupNext
Spec == Init /\ [][Next]_vars

(***************************************************************************)
(* The pure functions, each called on one argument (SpecCodec).            *)
(***************************************************************************)
\* the call made: fn_input is one of the calls below
Calling(fn, args) == \E a \in args : fn_input = [fn |-> fn, arg |-> a]

(***************************************************************************)
(* The query string of a request target (app.rs:379-387, 624-636).         *)
(***************************************************************************)
\* longest query text of a target in SpecCodec
MaxQuery == 5

\* Iterator::filter(|s| !s.is_empty())
NonEmpty(pieces) == SelectSeq(pieces, LAMBDA piece : piece # <<>>)

\* app.rs:628-633: one pair: the pieces of split('=') are taken with
\* next(): the first is the key, the second, if any, the value
QueryPair(pair) ==
    LET parts == split(pair, "=") IN
    [key   |-> parts[1],
     value |-> IF Len(parts) >= 2 THEN parts[2] ELSE <<>>]

\* collect() into a HashMap: a later pair replaces an earlier one
RECURSIVE Collect(_, _)
Collect(map, pairs) ==
    IF pairs = <<>>
    THEN map
    ELSE Collect(Insert(map, Head(pairs).key, Head(pairs).value), Tail(pairs))

\* Application::parse_query (app.rs:624-636)
parse_query(query) ==
    LET pairs == NonEmpty(split(query, "&")) IN
    Collect(EmptyMap, [i \in 1..Len(pairs) |-> QueryPair(pairs[i])])

\* app.rs:379-387: the pieces of split('?') are taken with next(): the
\* first is the path, the second, if any, the query
Request_query(target) ==
    LET path_parts == split(target, "?") IN
    IF Len(path_parts) >= 2 THEN parse_query(path_parts[2]) ELSE EmptyMap

\* sequences over `chars` of length n, and of length up to n
RECURSIVE Strings(_, _)
Strings(chars, n) ==
    IF n = 0
    THEN {<<>>}
    ELSE {<<ch>> \o str : ch \in chars, str \in Strings(chars, n - 1)}
StringsUpTo(chars, n) == UNION {Strings(chars, k) : k \in 0..n}

\* the request targets of SpecCodec: the path /p and, after a "?", a text
\* over keys, values and the separators
QueryChars == {"k", "v", "=", "&", "?"}
QueryTargets ==
    {<<"/", "p">>}
    \cup {<<"/", "p", "?">> \o q : q \in StringsUpTo(QueryChars, MaxQuery)}

(***************************************************************************)
(* Form bodies (src/src/http/request.rs).  A serde_json Value is           *)
(*   [t |-> "str", v |-> text], [t |-> "arr", v |-> sequence of Values] or *)
(*   [t |-> "obj", v |-> map from names to Values].                        *)
(***************************************************************************)
\* most pairs of a URL-encoded body in SpecCodec
MaxPairs == 3

Str(text) == [t |-> "str", v |-> text]
Arr(values) == [t |-> "arr", v |-> values]
Obj(map) == [t |-> "obj", v |-> map]

\* str::split_once(ch): the text before and after the first ch
split_once(str, ch) ==
    IF ~contains(str, ch)
    THEN [some |-> FALSE, key |-> <<>>, value |-> <<>>]
    ELSE LET i == CHOOSE k \in 1..Len(str) :
                      str[k] = ch /\ \A j \in 1..(k - 1) : str[j] # ch
         IN [some |-> TRUE, key |-> SubSeq(str, 1, i - 1),
             value |-> SubSeq(str, i + 1, Len(str))]

\* the percent escapes of the characters of this model
Escapes == (<<"5", "B">> :> "[") @@ (<<"5", "D">> :> "]")

\* urlencoding::decode: a "%" and two hex digits become the character
RECURSIVE urlencoding_decode(_)
urlencoding_decode(str) ==
    IF str = <<>>
    THEN <<>>
    ELSE IF /\ str[1] = "%"
            /\ Len(str) >= 3
            /\ SubSeq(str, 2, 3) \in DOMAIN Escapes
         THEN <<Escapes[SubSeq(str, 2, 3)]>>
                 \o urlencoding_decode(SubSeq(str, 4, Len(str)))
         ELSE <<str[1]>> \o urlencoding_decode(Tail(str))

Digits == ("0" :> 0) @@ ("1" :> 1) @@ ("2" :> 2)

\* str::parse::<usize>().is_ok()
IsNumber(part) ==
    part # <<>> /\ \A i \in 1..Len(part) : part[i] \in DOMAIN Digits

\* str::parse::<usize>().unwrap_or(0)
RECURSIVE ParseOrZero(_)
ParseOrZero(part) ==
    IF ~IsNumber(part)
    THEN 0
    ELSE IF Len(part) = 1
         THEN Digits[part[1]]
         ELSE 10 * ParseOrZero(SubSeq(part, 1, Len(part) - 1))
                 + Digits[part[Len(part)]]

\* key.split(|c| c == '[' || c == ']')
SplitBrackets(key) ==
    split([i \in 1..Len(key) |-> IF key[i] = "]" THEN "[" ELSE key[i]], "[")

\* str::ends_with("[]")
EndsWithEmptyBracket(key) ==
    Len(key) >= 2 /\ SubSeq(key, Len(key) - 1, Len(key)) = <<"[", "]">>

\* request.rs:203-223: the parts of a key, each with is_array_index; the
\* empty pieces are filtered out and one empty part is pushed when the key
\* ends with "[]"
KeyParts_noTrailing(key) ==
    LET raw_parts == NonEmpty(SplitBrackets(key)) IN
    [i \in 1..Len(raw_parts) |->
        [part |-> raw_parts[i], is_index |-> IsNumber(raw_parts[i])]]
KeyParts(key) ==
    LET raw_parts == NonEmpty(SplitBrackets(key)) IN
    [i \in 1..Len(raw_parts) |->
        [part |-> raw_parts[i], is_index |-> IsNumber(raw_parts[i])]]
    \o (IF EndsWithEmptyBracket(key)
        THEN <<[part |-> <<>>, is_index |-> TRUE]>>
        ELSE <<>>)

\* set_value_recursive (request.rs:229-311).  `index` counts from 0 as in
\* the code: the part looked at is parts[index + 1] here.
RECURSIVE set_value_recursive(_, _, _, _)
RECURSIVE set_in_array(_, _, _, _)

\* request.rs:244-264 and 284-305: the part is an index of the array `vec`
set_in_array(vec, parts, index, value) ==
    LET part == parts[index + 1].part IN
    IF part = <<>>
    THEN IF index + 1 >= Len(parts)
         THEN Append(vec, value)
         ELSE Append(vec, set_value_recursive(Obj(EmptyMap), parts,
                                              index + 1, value))
    ELSE LET idx   == ParseOrZero(part)
             grown == IF Len(vec) <= idx
                      THEN vec \o Repeat(Obj(EmptyMap), idx + 1 - Len(vec))
                      ELSE vec
         IN IF index + 1 >= Len(parts)
            THEN [grown EXCEPT ![idx + 1] = value]
            ELSE [grown EXCEPT ![idx + 1] =
                     set_value_recursive(@, parts, index + 1, value)]

set_value_recursive(current, parts, index, value) ==
    IF index >= Len(parts)
    THEN value
    ELSE LET part     == parts[index + 1].part
             is_index == parts[index + 1].is_index
         IN
         CASE current.t = "obj" ->
                IF is_index
                THEN \* request.rs:240-242: the entry named by the part before
                     LET name == parts[index].part
                         map  == IF name \in DOMAIN current.v
                                 THEN current.v
                                 ELSE Insert(current.v, name, Arr(<<>>))
                     IN IF map[name].t = "arr"
                        THEN Obj([map EXCEPT ![name] =
                                    Arr(set_in_array(@.v, parts, index, value))])
                        ELSE Obj(map)
                ELSE \* request.rs:266-280: a property of the object
                     LET fresh == IF index + 1 < Len(parts)
                                  THEN IF parts[index + 2].is_index
                                       THEN Arr(<<>>)
                                       ELSE Obj(EmptyMap)
                                  ELSE value
                         map   == IF part \in DOMAIN current.v
                                  THEN current.v
                                  ELSE Insert(current.v, part, fresh)
                     IN Obj([map EXCEPT ![part] =
                               set_value_recursive(@, parts, index + 1, value)])
           [] current.t = "arr" ->
                Arr(set_in_array(current.v, parts, index, value))
           [] OTHER -> current

\* Body::set_nested_value (request.rs:197-324) on the map `json`
set_nested_value(json, key, value) ==
    LET parts == KeyParts(key) IN
    IF key = <<>> \/ parts = <<>>
    THEN json
    ELSE LET root_key == parts[1].part
             map == IF root_key \in DOMAIN json
                    THEN json
                    ELSE Insert(json, root_key,
                                IF Len(parts) > 1 /\ parts[2].is_index
                                THEN Arr(<<>>)
                                ELSE Obj(EmptyMap))
         IN [map EXCEPT ![root_key] =
               set_value_recursive(@, parts, 1, value)]

\* the loop of Body::parse_urlencoded (request.rs:152-164) over the pairs
RECURSIVE parse_pairs(_, _)
parse_pairs(json, pairs) ==
    IF pairs = <<>>
    THEN json
    ELSE LET kv == split_once(Head(pairs), "=") IN
         parse_pairs(IF kv.some
                     THEN set_nested_value(json, urlencoding_decode(kv.key),
                                           Str(urlencoding_decode(kv.value)))
                     ELSE json,
                     Tail(pairs))

\* Body::parse_urlencoded (request.rs:148-167)
parse_urlencoded(data) == Obj(parse_pairs(EmptyMap, split(data, "&")))

\* the keys and the values of the form fields of SpecCodec
FormKeys ==
    {<<"k", "[", "]">>,
     <<"a", "[", "b", "]", "[", "]">>,
     <<"a", "%", "5", "B", "b", "%", "5", "D", "%", "5", "B", "%", "5", "D">>,
     <<"u", "[", "a", "]", "[", "]", "[", "c", "]">>,
     <<"n", "[", "1", "]", "[", "c", "]">>}
FormValues == {<<"1">>, <<"2">>}
FormPairs == {k \o <<"=">> \o v : k \in FormKeys, v \in FormValues}

\* str::join("&")
RECURSIVE Join(_, _)
Join(pieces, sep) ==
    IF pieces = <<>> THEN <<>>
    ELSE IF Len(pieces) = 1 THEN pieces[1]
    ELSE pieces[1] \o sep \o Join(Tail(pieces), sep)

\* the URL-encoded bodies of SpecCodec: up to MaxPairs pairs
FormBodies ==
    {Join(pairs, <<"&">>) :
        pairs \in UNION {[1..n -> FormPairs] : n \in 0..MaxPairs}}

(***************************************************************************)
(* Multipart bodies (request.rs:115-146, 170-194, 328-373).  A body is a   *)
(* sequence of tokens: the separators the parser looks for (CR, LF, "--",  *)
(* ":", ";", "=", the quote, the space) and words free of them.            *)
(***************************************************************************)
\* most parts of a multipart body in SpecCodec
MaxParts == 2

CRLF == <<"CR", "LF">>
Quote == "\""

\* <[u8]>::windows(needle.len()).position(|w| w == needle), from 0
Occurrences(haystack, needle) ==
    {pos \in 0..(Len(haystack) - Len(needle)) :
        SubSeq(haystack, pos + 1, pos + Len(needle)) = needle}
find_subsequence(haystack, needle) ==
    IF Occurrences(haystack, needle) = {}
    THEN [some |-> FALSE, pos |-> 0]
    ELSE [some |-> TRUE,
          pos  |-> CHOOSE pos \in Occurrences(haystack, needle) :
                      \A q \in Occurrences(haystack, needle) : pos <= q]

\* &body[from..to]
Slice(body, from, to) == SubSeq(body, from + 1, to)

\* the loop of Body::split_body (request.rs:179-188)
RECURSIVE split_body_loop(_, _, _, _, _)
split_body_loop(body, pattern, end_pattern, start, parts) ==
    LET found == find_subsequence(Slice(body, start, Len(body)), pattern) IN
    IF ~found.some
    THEN [start |-> start, parts |-> parts]
    ELSE LET pushed == Append(parts, Slice(body, start, start + found.pos))
             next   == start + found.pos + Len(pattern)
         IN IF /\ next + Len(end_pattern) <= Len(body)
               /\ Slice(body, next, next + Len(end_pattern)) = end_pattern
            THEN [start |-> next, parts |-> pushed]
            ELSE split_body_loop(body, pattern, end_pattern, next, pushed)

\* Body::split_body (request.rs:170-194); the slice of request.rs:191
\* panics when its end lies before its start
split_body(body, delimiter) ==
    LET pattern     == CRLF \o delimiter \o CRLF
        end_pattern == CRLF \o delimiter \o <<"--">> \o CRLF
        after       == split_body_loop(body, pattern, end_pattern, 0, <<>>)
    IN IF after.start < Len(body)
       THEN IF Len(body) - Len(end_pattern) < after.start
            THEN [panic |-> TRUE, parts |-> <<>>]
            ELSE [panic |-> FALSE,
                  parts |-> Append(after.parts,
                                   Slice(body, after.start,
                                         Len(body) - Len(end_pattern)))]
       ELSE [panic |-> FALSE, parts |-> after.parts]

\* Body::split_headers_content (request.rs:336-342)
split_headers_content(part) ==
    LET found == find_subsequence(part, CRLF \o CRLF) IN
    IF found.some
    THEN [ok |-> TRUE, headers |-> Slice(part, 0, found.pos),
          content |-> Slice(part, found.pos + 4, Len(part))]
    ELSE [ok |-> FALSE, headers |-> <<>>, content |-> <<>>]

\* str::split("\r\n")
RECURSIVE SplitAt(_, _)
SplitAt(str, sep) ==
    LET found == find_subsequence(str, sep) IN
    IF ~found.some
    THEN <<str>>
    ELSE <<Slice(str, 0, found.pos)>>
            \o SplitAt(Slice(str, found.pos + Len(sep), Len(str)), sep)

\* str::trim: the white space at both ends goes
WhiteSpace == {" ", "CR", "LF"}
RECURSIVE trim(_)
trim(str) ==
    IF str # <<>> /\ str[1] \in WhiteSpace THEN trim(Tail(str))
    ELSE IF str # <<>> /\ str[Len(str)] \in WhiteSpace
         THEN trim(SubSeq(str, 1, Len(str) - 1))
         ELSE str

\* str::trim_matches(ch): ch goes at both ends
trim_matches(str, ch) == trim_start_matches(trim_end_matches(str, ch), ch)

\* str::to_lowercase on the words of this model
LowerCase ==
    ("Content-Disposition" :> "content-disposition")
    @@ ("Content-Type" :> "content-type")
to_lowercase(str) ==
    [i \in 1..Len(str) |->
        IF str[i] \in DOMAIN LowerCase THEN LowerCase[str[i]] ELSE str[i]]

\* request.rs:356-360: the parameters of Content-Disposition after the
\* first, each cut at its first "="
RECURSIVE disposition_params(_, _)
disposition_params(map, params) ==
    IF params = <<>>
    THEN map
    ELSE LET kv == split_once(trim(Head(params)), "=") IN
         disposition_params(IF kv.some THEN Insert(map, kv.key, kv.value)
                                       ELSE map,
                            Tail(params))

\* the loop of Body::parse_headers (request.rs:348-364) over the lines
RECURSIVE parse_header_lines(_, _)
parse_header_lines(map, lines) ==
    IF lines = <<>>
    THEN map
    ELSE LET kv    == split_once(Head(lines), ":")
             key   == to_lowercase(trim(kv.key))
             value == trim_matches(trim(kv.value), Quote)
         IN parse_header_lines(
                IF ~kv.some
                THEN map
                ELSE IF key = <<"content-disposition">>
                     THEN disposition_params(map, Tail(split(value, ";")))
                     ELSE Insert(map, key, value),
                Tail(lines))

\* Body::parse_headers (request.rs:344-367)
parse_headers(headers) == parse_header_lines(EmptyMap, SplitAt(headers, CRLF))

\* the bytes of the file contents of this model, and the base64 alphabet
ByteOf == ("h" :> 104) @@ ("i" :> 105)
Base64Chars ==
    <<"A", "B", "C", "D", "E", "F", "G", "H", "I", "J", "K", "L", "M",
      "N", "O", "P", "Q", "R", "S", "T", "U", "V", "W", "X", "Y", "Z",
      "a", "b", "c", "d", "e", "f", "g", "h", "i", "j", "k", "l", "m",
      "n", "o", "p", "q", "r", "s", "t", "u", "v", "w", "x", "y", "z",
      "0", "1", "2", "3", "4", "5", "6", "7", "8", "9", "+", "/">>
Sextet(n, i) == Base64Chars[((n \div (64 ^ (3 - i))) % 64) + 1]

\* base64::engine::general_purpose::STANDARD.encode
RECURSIVE base64_encode(_)
base64_encode(bytes) ==
    CASE Len(bytes) = 0 -> <<>>
      [] Len(bytes) = 1 ->
           LET n == ByteOf[bytes[1]] * 65536 IN
           <<Sextet(n, 0), Sextet(n, 1), "=", "=">>
      [] Len(bytes) = 2 ->
           LET n == ByteOf[bytes[1]] * 65536 + ByteOf[bytes[2]] * 256 IN
           <<Sextet(n, 0), Sextet(n, 1), Sextet(n, 2), "=">>
      [] OTHER ->
           LET n == ByteOf[bytes[1]] * 65536 + ByteOf[bytes[2]] * 256
                       + ByteOf[bytes[3]]
           IN <<Sextet(n, 0), Sextet(n, 1), Sextet(n, 2), Sextet(n, 3)>>
                 \o base64_encode(SubSeq(bytes, 4, Len(bytes)))

\* std::str::from_utf8 / String::from_utf8 succeed: no byte of the model's
\* invalid sequence among the tokens
NotUtf8 == {"0xFF"}
from_utf8_ok(bytes) == \A i \in 1..Len(bytes) : bytes[i] \notin NotUtf8

\* request.rs:127-142: the value of one part
PartValue(headers, content) ==
    IF <<"filename">> \in DOMAIN headers
    THEN Obj((<<"filename">> :>
                 Str(trim_matches(headers[<<"filename">>], Quote)))
             @@ (<<"content">> :> Str(base64_encode(content)))
             @@ (<<"content_type">> :>
                    Str(IF <<"content-type">> \in DOMAIN headers
                        THEN headers[<<"content-type">>]
                        ELSE <<"application/octet-stream">>)))
    ELSE Str(content)

\* the loop of Body::parse_multipart (request.rs:122-143) over the parts
RECURSIVE parse_parts(_, _)
parse_parts(json, parts) ==
    IF parts = <<>>
    THEN [ok |-> TRUE, json |-> json]
    ELSE LET cut     == split_headers_content(Head(parts))
             headers == parse_headers(cut.headers)
         IN IF ~cut.ok
            THEN [ok |-> FALSE, json |-> json]
            ELSE IF ~from_utf8_ok(cut.headers)
            THEN [ok |-> FALSE, json |-> json]
            ELSE parse_parts(
                     IF /\ <<"name">> \in DOMAIN headers
                        /\ \/ <<"filename">> \in DOMAIN headers
                           \/ from_utf8_ok(cut.content)
                     THEN set_nested_value(
                              json, trim_matches(headers[<<"name">>], Quote),
                              PartValue(headers, cut.content))
                     ELSE json,
                     Tail(parts))

\* Body::extract_boundary (request.rs:328-334) on "multipart/form-data;
\* boundary=B"
extract_boundary(content_type) ==
    LET pieces == split(content_type, ";")
        found  == SelectSeq([i \in 1..Len(pieces) |-> trim(pieces[i])],
                            LAMBDA piece : /\ Len(piece) >= 2
                                           /\ piece[1] = "boundary"
                                           /\ piece[2] = "=")
    IN IF found = <<>>
       THEN [ok |-> FALSE, boundary |-> <<>>]
       ELSE [ok |-> TRUE,
             boundary |-> trim_matches(SubSeq(found[1], 3, Len(found[1])),
                                       Quote)]

\* Body::parse_multipart (request.rs:115-146): the Value, an error, or the
\* panic of split_body
parse_multipart(content_type, body) ==
    LET boundary == extract_boundary(content_type) IN
    IF ~boundary.ok
    THEN [tag |-> "Err", value |-> Obj(EmptyMap)]
    ELSE LET split_parts == split_body(body, <<"--">> \o boundary.boundary)
             parsed      == parse_parts(EmptyMap, split_parts.parts)
         IN IF split_parts.panic
            THEN [tag |-> "Panic", value |-> Obj(EmptyMap)]
            ELSE IF ~parsed.ok
                 THEN [tag |-> "Err", value |-> Obj(EmptyMap)]
                 ELSE [tag |-> "Ok", value |-> Obj(parsed.json)]

\* what a client sends: a part is [name, file, filename, content]
PartNames == {<<"file">>, <<"t">>}
FileNames == {<<"a.txt">>, <<"a", ";", "b">>}
Contents == {<<>>, <<"h">>, <<"h", "i">>}
FormParts ==
    {[name |-> n, file |-> TRUE, filename |-> f, content |-> c] :
        n \in PartNames, f \in FileNames, c \in Contents}
    \cup {[name |-> n, file |-> FALSE, filename |-> <<>>, content |-> c] :
             n \in PartNames, c \in Contents}

\* the parts of one body: up to MaxParts, their names distinct
FormPartLists ==
    {parts \in UNION {[1..n -> FormParts] : n \in 1..MaxParts} :
        \A i, j \in 1..Len(parts) : parts[i].name = parts[j].name => i = j}

\* one part as a client encodes it
EncodePart(part, boundary) ==
    <<"--">> \o boundary \o CRLF
    \o <<"Content-Disposition", ":", " ", "form-data", ";", " ",
         "name", "=", Quote>> \o part.name \o <<Quote>>
    \o (IF part.file
        THEN <<";", " ", "filename", "=", Quote>> \o part.filename
                \o <<Quote>> \o CRLF
                \o <<"Content-Type", ":", " ", "text/plain">>
        ELSE <<>>)
    \o CRLF \o CRLF \o part.content \o CRLF

\* a multipart/form-data body as a client encodes it
RECURSIVE EncodeParts(_, _)
EncodeParts(parts, boundary) ==
    IF parts = <<>>
    THEN <<"--">> \o boundary \o <<"--">> \o CRLF
    ELSE EncodePart(Head(parts), boundary)
            \o EncodeParts(Tail(parts), boundary)

Boundary == <<"B">>
MultipartType ==
    <<"multipart/form-data", ";", " ", "boundary", "=">> \o Boundary

\* Body::form_data (request.rs:102-113): None for another content type and
\* for an error of parse_multipart
form_data(content_type, body) ==
    IF content_type = <<>> \/ content_type[1] # "multipart/form-data"
    THEN [tag |-> "Err", value |-> Obj(EmptyMap)]
    ELSE parse_multipart(content_type, body)

\* bodies a client sends damaged: the parts they were encoded from, the
\* content type, the bytes, and what is wrong with them
Whole == {<<[name |-> <<"t">>, file |-> FALSE, filename |-> <<>>,
             content |-> <<"h", "i">>]>>,
          <<[name |-> <<"file">>, file |-> TRUE, filename |-> <<"a.txt">>,
             content |-> <<"h">>],
            [name |-> <<"t">>, file |-> FALSE, filename |-> <<>>,
             content |-> <<"h", "i">>]>>}
Damaged(parts, content_type, body, defect) ==
    [parts |-> parts, content_type |-> content_type, body |-> body,
     defect |-> defect]
\* the blank line after the headers of the first part is missing
WithoutBlankLine(body) ==
    LET at == find_subsequence(body, CRLF \o CRLF).pos IN
    Slice(body, 0, at) \o Slice(body, at + 2, Len(body))
\* a header line that is not UTF-8 after the first delimiter line
WithBadHeader(body) ==
    Slice(body, 0, 4) \o <<"X", ":", " ", "0xFF">> \o CRLF
        \o Slice(body, 4, Len(body))
DamagedBodies ==
    UNION {
        {Damaged(parts, MultipartType, EncodeParts(parts, Boundary), "none"),
         Damaged(parts, <<"multipart/form-data">>,
                 EncodeParts(parts, Boundary), "no_boundary"),
         Damaged(parts, MultipartType,
                 WithoutBlankLine(EncodeParts(parts, Boundary)),
                 "no_blank_line"),
         Damaged(parts, MultipartType,
                 WithBadHeader(EncodeParts(parts, Boundary)), "bad_utf8")}
        \cup {Damaged(parts, MultipartType,
                      Slice(EncodeParts(parts, Boundary), 0, n), "truncated") :
                 n \in 0..(Len(EncodeParts(parts, Boundary)) - 1)}
        : parts \in Whole}

(***************************************************************************)
(* Writing a response (app.rs:450-459).  A Response is [status, headers,   *)
(* body]: headers a map from names to values, body a string, that is a     *)
(* sequence of characters.  A header value that is a length is kept as the *)
(* number its decimal text denotes.                                        *)
(***************************************************************************)
\* U+FFFD, which String::from_utf8_lossy puts for a byte that is no UTF-8
Replacement == "U+FFFD"

\* the bytes of one character in UTF-8: three for U+FFFD, one for ASCII
CharLen(ch) == IF ch = Replacement THEN 3 ELSE 1

\* str::len: the length of a string in bytes
RECURSIVE str_len(_)
str_len(str) ==
    IF str = <<>> THEN 0 ELSE CharLen(Head(str)) + str_len(Tail(str))

\* bytes that are not valid UTF-8 on their own
InvalidBytes == {"1f8b"}

\* String::from_utf8_lossy(bytes).to_string()
from_utf8_lossy(bytes) ==
    [i \in 1..Len(bytes) |->
        IF bytes[i] \in InvalidBytes THEN Replacement ELSE bytes[i]]

\* CompressionConfig (compression.rs:7-48): the smallest body compressed
\* and the content types left alone
MinSize == 1
SkipTypes == {"image/png"}

\* CompressionConfig::should_compress (compression.rs:15-31)
should_compress(content_type, content_length) ==
    /\ ~(content_length < MinSize)
    /\ content_type \notin SkipTypes

\* the header of a response, or "none"
HeaderOf(response, name) ==
    IF name \in DOMAIN response.headers
    THEN response.headers[name] ELSE "none"

\* CompressionMiddleware::call after next.handle returned `response`
\* (compression.rs:62-106); `encoded` are the bytes the encoder produced
CompressionMiddleware_call(response, encoded) ==
    LET accept_encoding == HeaderOf(response, "accept-encoding")
        content_type    == HeaderOf(response, "content-type")
        compress        == /\ should_compress(content_type,
                                              str_len(response.body))
                           /\ accept_encoding \in {"gzip", "deflate"}
        compressed      == IF compress THEN encoded ELSE <<>>
        with_encoding   ==
            IF compress
            THEN Insert(response.headers, "Content-Encoding", accept_encoding)
            ELSE response.headers
    IN IF compressed # <<>>
       THEN [status  |-> response.status,
             body    |-> from_utf8_lossy(compressed),
             headers |-> Insert(Insert(with_encoding,
                                       "Content-Length", Len(compressed)),
                                "Vary", "Accept-Encoding")]
       ELSE [response EXCEPT !.headers = with_encoding]

\* app.rs:450-457: the bytes written: the status line, one line per header
\* in the order the HashMap yields them, the Content-Length line, the
\* blank line and the body
Wire(response, order) ==
    [status_line |-> response.status,
     header_lines |->
        [i \in 1..Len(order) |->
            [name |-> order[i], value |-> response.headers[order[i]]]]
        \o <<[name |-> "Content-Length", value |-> str_len(response.body)]>>,
     body |-> response.body]

\* responses a handler returns in this model
HandlerHeaders ==
    {<<>>,
     "content-type" :> "text/plain",
     "content-type" :> "image/png",
     "accept-encoding" :> "gzip",
     "accept-encoding" :> "deflate",
     ("accept-encoding" :> "gzip") @@ ("content-type" :> "text/plain"),
     ("accept-encoding" :> "gzip") @@ ("content-type" :> "image/png"),
     "Content-Length" :> 2,
     "Content-Length" :> 5,
     ("Content-Length" :> 2) @@ ("content-type" :> "text/plain")}
HandlerBodies == {<<>>, <<"h", "i">>}
HandlerResponses ==
    {[status |-> 200, headers |-> h, body |-> b] :
        h \in HandlerHeaders, b \in HandlerBodies}

\* what the encoder makes of a body: the gzip magic bytes 1f 8b, which are
\* no UTF-8, and then the data
Encodings == {<<"1f8b", "d">>, <<"1f8b", "d", "d">>}

\* the chain around the handler: nothing, or the CompressionMiddleware with
\* the bytes its encoder produces
WriteCalls ==
    {[response |-> r, chain |-> "none", encoded |-> <<>>] :
        r \in HandlerResponses}
    \cup {[response |-> r, chain |-> "compression", encoded |-> e] :
             r \in HandlerResponses, e \in Encodings}

\* the response that reaches the supervisor
Chained(call) ==
    IF call.chain = "compression"
    THEN CompressionMiddleware_call(call.response, call.encoded)
    ELSE call.response

CodecInit ==
    /\ fn_output = NotReturned
    /\ \/ Calling("status_code", ErrorKinds)
       \/ Calling("write", WriteCalls)
       \/ Calling("target", QueryTargets)
       \/ Calling("urlencoded", FormBodies)
       \/ Calling("form_data", FormPartLists)
       \/ Calling("damaged", DamagedBodies)

\* ServerError::status_code (error.rs:19-35)
CallStatusCode ==
    /\ fn_input.fn = "status_code"
    /\ ~fn_output.done
    /\ fn_output' = Returned(status_code(fn_input.arg))
    /\ UNCHANGED <<fn_input, nonCodecVars>>

\* app.rs:450-459: the response of the chain is written
CallWrite(order) ==
    /\ fn_input.fn = "write"
    /\ ~fn_output.done
    /\ order \in KeyOrders(DOMAIN Chained(fn_input.arg).headers)
    /\ fn_output' = Returned(Wire(Chained(fn_input.arg), order))
    /\ UNCHANGED <<fn_input, nonCodecVars>>

\* app.rs:379-387: the target of the request line is taken apart
CallTarget ==
    /\ fn_input.fn = "target"
    /\ ~fn_output.done
    /\ fn_output' = Returned([path  |-> Request_path(fn_input.arg),
                              query |-> Request_query(fn_input.arg)])
    /\ UNCHANGED <<fn_input, nonCodecVars>>

\* Body::parse_urlencoded (request.rs:148-167) on the bytes of a body
CallUrlencoded ==
    /\ fn_input.fn = "urlencoded"
    /\ ~fn_output.done
    /\ fn_output' = Returned(parse_urlencoded(fn_input.arg))
    /\ UNCHANGED <<fn_input, nonCodecVars>>

\* Body::form_data (request.rs:102-113) on the body a client encoded from
\* the parts
CallFormData ==
    /\ fn_input.fn = "form_data"
    /\ ~fn_output.done
    /\ fn_output' = Returned(parse_multipart(
                                 MultipartType,
                                 EncodeParts(fn_input.arg, Boundary)))
    /\ UNCHANGED <<fn_input, nonCodecVars>>

\* Body::form_data (request.rs:102-113) on a body that arrived damaged
CallDamaged ==
    /\ fn_input.fn = "damaged"
    /\ ~fn_output.done
    /\ fn_output' = Returned(form_data(fn_input.arg.content_type,
                                        fn_input.arg.body))
    /\ UNCHANGED <<fn_input, nonCodecVars>>

HeaderNames ==
    {"content-type", "accept-encoding", "Content-Length", "Content-Encoding",
     "Vary"}

NextCodec ==
    \/ CallStatusCode
    \/ CallTarget
    \/ CallUrlencoded
    \/ CallFormData
    \/ CallDamaged
    \/ \E order \in UNION {KeyOrders(names) : names \in SUBSET HeaderNames} :
          CallWrite(order)

InitCodec ==
    /\ CodecInit /\ SupIdle /\ ChainIdle /\ RouterIdle /\ PluginsInit
    /\ ServiceIdle
SpecCodec == InitCodec /\ [][NextCodec]_vars

\* the steps of the task of connection c
TaskStep(c) ==
    \/ \E ok \in BOOLEAN : TaskStart(c, ok)
    \/ \E o \in ReadOutcomes : ReadRequest(c, o)
    \/ \E o \in HandleOutcomes : Dispatch(c, o)
    \/ \E o \in OverrideOutcomes : FormatResponse(c, o)
    \/ \E ok \in BOOLEAN : WriteResponse(c, ok)
    \/ TaskFinish(c)

\* The accept loop runs in block_on on the calling thread and the tasks on
\* the workers of the runtime (app.rs:295-296, 331): the loop and every
\* task keep taking steps, and accept() hands over a connection that waits
\* (it does not fail forever).
Fairness ==
    /\ WF_vars(LoopBelowCeiling)
    /\ SF_vars(AcceptOk)
    /\ \A c \in ConnIds : WF_vars(TaskStep(c))
SpecLive == Init /\ [][Next]_vars /\ Fairness

(***************************************************************************)
(* SpecErrors: a configured server has read the request of its first       *)
(* connection; the request is dispatched, its result formatted and         *)
(* written (app.rs:432-459).                                               *)
(***************************************************************************)
\* the middlewares of the server: they hand on what they receive, or they
\* refuse the request
ErrorMiddlewares == {"pass", "tag", "short_err"}
ErrorChains == UNION {[1..n -> ErrorMiddlewares] : n \in 0..(MaxChain - 1)}
ErrorTokens == {"GET", "HEAD", "OPTIONS", "POST"}
ErrorTargets ==
    {<<"/", "a">>, <<"/", "b">>, <<"/", "a", "/", "b">>, <<"/", ":", "x">>}

\* a server being configured: the table, the calls made, their number
Unconfigured == [router |-> Router_new, calls |-> <<>>, n |-> 0]
CallOf(cfg, op, method, path) ==
    [op |-> op, method |-> method, path |-> path, subtable |-> Router_new,
     id |-> Id("app", cfg.n + 1), middlewares |-> cfg.router.middlewares]

\* Application::middleware (app.rs:271-273)
RegisterMiddleware(cfg, kind) ==
    [router |-> Router_middleware(cfg.router,
                                  [id |-> Id("app", cfg.n + 1), kind |-> kind]),
     calls  |-> Append(cfg.calls, CallOf(cfg, "middleware", "", <<>>)),
     n      |-> cfg.n + 1]

\* Application::get (app.rs:155-163)
RegisterRoute(cfg, method, path) ==
    [router |-> Router_add(cfg.router, method, path,
                           NewHandler(Id("app", cfg.n + 1), path)),
     calls  |-> Append(cfg.calls, CallOf(cfg, "add", method, path)),
     n      |-> cfg.n + 1]

RECURSIVE RegisterMiddlewares(_, _, _)
RegisterMiddlewares(cfg, kinds, i) ==
    IF i > Len(kinds)
    THEN cfg
    ELSE RegisterMiddlewares(RegisterMiddleware(cfg, kinds[i]), kinds, i + 1)

\* the server of examples/routing.rs behind the middlewares `kinds`: a
\* static route and a route with a parameter
ErrorServer(kinds) ==
    RegisterRoute(
        RegisterRoute(RegisterMiddlewares(Unconfigured, kinds, 1),
                      "GET", <<"/", "a">>),
        "GET", <<"/", ":", "x">>)

\* what Application::handle hands to catch_unwind (app.rs:432): the
\* response, the error, or the panic of a handler
HandleOutcome(outcome) ==
    IF outcome.result.ok
    THEN [tag |-> "Ok", status |-> ResponseOf(outcome).status]
    ELSE IF ErrorOf(outcome) = "PanicError"
         THEN [tag |-> "Panic"]
         ELSE [tag |-> "Err", error |-> ErrorOf(outcome)]

InitErrors ==
    /\ \E kinds \in ErrorChains :
          /\ router = ErrorServer(kinds).router
          /\ calls = ErrorServer(kinds).calls
          /\ next_id = [app |-> ErrorServer(kinds).n, sub |-> 0]
    /\ sub = Router_new
    /\ static_files = {}
    /\ phase = "serving"
    /\ last = NoDispatch
    /\ max_connections \in 1..MaxConnections
    /\ tls_config \in BOOLEAN
    /\ on_error \in {"None", "Some"}
    /\ connection_counter = 1
    /\ loop_pc = "load"
    /\ max_reached = FALSE
    /\ accepted = 1
    /\ conn = [c \in ConnIds |->
                 IF c = 1 THEN [NotAccepted EXCEPT !.pc = "parsed"]
                 ELSE NotAccepted]
    /\ ChainIdle
    /\ PluginsIdle
    /\ ServiceIdle

NextErrors ==
    \/ \E t \in ErrorTokens, p \in ErrorTargets, ok \in BOOLEAN :
          /\ last = NoDispatch
          /\ conn[1].pc = "parsed"
          /\ DispatchRequest(t, p, ok)
    \/ /\ last # NoDispatch
       /\ Dispatch(1, HandleOutcome(last.outcome))
    \/ \E o \in OverrideOutcomes : FormatResponse(1, o)
    \/ \E ok \in BOOLEAN : WriteResponse(1, ok)
    \/ TaskFinish(1)

SpecErrors == InitErrors /\ [][NextErrors]_vars

(***************************************************************************)
(* The rate limiter (src/src/middleware/security.rs:71-154).               *)
(***************************************************************************)
\* the last tick of the clock, and the largest value of a limit
MaxTime == 3
MaxBurst == 2

\* Duration::from_secs(60) (security.rs:109), in ticks
Minute == 2

\* Instant::now() moves on
Tick ==
    /\ clock < MaxTime
    /\ clock' = clock + 1
    /\ UNCHANGED <<limiter, requests, passed, last_limit, pool, leased,
                   made, last_get, nonServiceVars>>

\* the requests that arrive: the headers that name the client, and the path
LimitedRequests ==
    {[headers |-> ("x-forwarded-for" :> "c1") @@ ("x-real-ip" :> "c2"),
      path |-> <<"/", "a">>],
     [headers |-> ("x-real-ip" :> "c1"), path |-> <<"/", "a">>],
     [headers |-> ("x-forwarded-for" :> "c1"), path |-> <<"/", "b">>],
     [headers |-> EmptyMap, path |-> <<"/", "a">>]}

\* security.rs:137-140: x-forwarded-for, or x-real-ip, or "unknown"
client_ip(headers) ==
    IF "x-forwarded-for" \in DOMAIN headers THEN headers["x-forwarded-for"]
    ELSE IF "x-real-ip" \in DOMAIN headers THEN headers["x-real-ip"]
    ELSE "unknown"

\* RateLimiter::is_allowed (security.rs:106-130): the decision and the map
\* REQUESTS it leaves
is_allowed(config, map, now, key) ==
    LET minute_ago == now - Minute IN
    IF key \in DOMAIN map
    THEN LET times == SelectSeq(map[key], LAMBDA time : time > minute_ago) IN
         IF Len(times) >= config.burst_size
         THEN [allowed |-> FALSE, map |-> Insert(map, key, times)]
         ELSE IF Len(times) >= config.requests_per_minute
         THEN [allowed |-> FALSE, map |-> Insert(map, key, times)]
         ELSE [allowed |-> TRUE,
               map |-> Insert(map, key, Append(times, now))]
    ELSE [allowed |-> TRUE, map |-> Insert(map, key, <<now>>)]

\* the requests of a key handed on within the minute that ends at `now`
Recent(key, now) ==
    IF key \in DOMAIN passed
    THEN Len(SelectSeq(passed[key], LAMBDA time : time > now - Minute))
    ELSE 0

\* RateLimiter::call (security.rs:133-154)
RateLimiter_call(headers, path) ==
    LET key     == <<client_ip(headers), path>>
        decided == is_allowed(limiter, requests, clock, key)
    IN /\ requests' = decided.map
       /\ passed' = IF decided.allowed
                    THEN Insert(passed, key,
                                IF key \in DOMAIN passed
                                THEN Append(passed[key], clock)
                                ELSE <<clock>>)
                    ELSE passed
       /\ last_limit' =
             [some |-> TRUE, key |-> key, time |-> clock,
              recent |-> Recent(key, clock),
              allowed |-> decided.allowed,
              next_called |-> decided.allowed,
              response |-> IF decided.allowed THEN "next"
                           ELSE "TooManyRequests"]
       /\ UNCHANGED <<clock, limiter, pool, leased, made, last_get,
                      nonServiceVars>>

LimiterInit ==
    /\ clock = 0
    /\ limiter \in [requests_per_minute : 0..MaxBurst, burst_size : 0..MaxBurst]
    /\ requests = EmptyMap
    /\ passed = EmptyMap
    /\ last_limit = NoLimit
    /\ pool = [max_size |-> 0, min_idle |-> 0, connections |-> <<>>]
    /\ leased = {}
    /\ made = 0
    /\ last_get = NoGet

InitLimiter ==
    LimiterInit /\ SupIdle /\ ChainIdle /\ RouterIdle /\ PluginsIdle
NextLimiter ==
    \/ Tick
    \/ \E req \in LimitedRequests : RateLimiter_call(req.headers, req.path)
SpecLimiter == InitLimiter /\ [][NextLimiter]_vars

(***************************************************************************)
(* The connection pool (src/src/database/mod.rs:21-137).                   *)
(***************************************************************************)
\* the largest max_size and min_idle, and the most connections ever created
MaxPool == 2
MaxMade == 4

\* PoolConfig::max_lifetime and PoolConfig::idle_timeout, in ticks
max_lifetime == 2
idle_timeout == 1

\* what (self.create_connection)() and Connection::is_valid give
CreateOutcomes == {"ok", "failed", "invalid"}

\* the loop of ConnectionPool::get that closes the expired connections at
\* the front of the queue (database/mod.rs:81-89)
RECURSIVE remove_expired(_, _)
remove_expired(connections, now) ==
    IF connections = <<>> THEN <<>>
    ELSE IF \/ now - Head(connections).created_at > max_lifetime
            \/ now - Head(connections).last_used_at > idle_timeout
    THEN remove_expired(Tail(connections), now)
    ELSE connections

\* ConnectionPool::create_new_connection (database/mod.rs:125-137)
create_new_connection(outcome) ==
    IF outcome = "failed" THEN [tag |-> "Err", error |-> "ConnectionFailed"]
    ELSE IF outcome = "invalid"
    THEN [tag |-> "Err", error |-> "InvalidConnection"]
    ELSE [tag |-> "Ok", error |-> "none"]

\* ConnectionPool::get (database/mod.rs:76-108); `valid` is what is_valid
\* says of the connection at the front, `outcome` what creating one gives
ConnectionPool_get(valid, outcome) ==
    LET fresh   == remove_expired(pool.connections, clock)
        reuse   == fresh # <<>> /\ valid
        rest    == IF fresh = <<>> THEN <<>> ELSE Tail(fresh)
        open    == Len(rest) + Cardinality(leased)
        created == /\ ~reuse
                   /\ Len(rest) < pool.max_size
                   /\ create_new_connection(outcome).tag = "Ok"
    IN /\ created => made < MaxMade
       /\ pool' = [pool EXCEPT !.connections = rest]
       /\ leased' = IF reuse THEN leased \cup {Head(fresh).id}
                    ELSE IF created THEN leased \cup {made + 1}
                    ELSE leased
       /\ made' = IF created THEN made + 1 ELSE made
       /\ last_get' = [some |-> TRUE, open |-> open,
                       result |-> IF reuse THEN "idle"
                                  ELSE IF created THEN "created"
                                  ELSE "PoolExhausted"]
       /\ UNCHANGED <<clock, limiter, requests, passed, last_limit,
                      nonServiceVars>>

\* ConnectionPool::release (database/mod.rs:110-123) of a connection that
\* get handed out
ConnectionPool_release(id, valid) ==
    /\ id \in leased
    /\ leased' = leased \ {id}
    /\ pool' = IF Len(pool.connections) < pool.max_size /\ valid
               THEN [pool EXCEPT !.connections =
                        Append(@, [id |-> id, created_at |-> clock,
                                   last_used_at |-> clock])]
               ELSE pool
    /\ UNCHANGED <<clock, limiter, requests, passed, last_limit, made,
                   last_get, nonServiceVars>>

\* the queue ConnectionPool::new fills (database/mod.rs:63-71): one
\* connection for each of the min_idle creations that worked
InitialConnections(count) ==
    [i \in 1..count |-> [id |-> i, created_at |-> 0, last_used_at |-> 0]]

\* ConnectionPool::new (database/mod.rs:52-74)
PoolInit ==
    /\ clock = 0
    /\ \E max_size \in 0..MaxPool, min_idle \in 0..MaxPool :
          \E count \in 0..min_idle :
             /\ pool = [max_size |-> max_size, min_idle |-> min_idle,
                        connections |-> InitialConnections(count)]
             /\ made = count
    /\ leased = {}
    /\ last_get = NoGet
    /\ limiter = [requests_per_minute |-> 0, burst_size |-> 0]
    /\ requests = <<>>
    /\ passed = <<>>
    /\ last_limit = NoLimit

InitPool ==
    PoolInit /\ SupIdle /\ ChainIdle /\ RouterIdle /\ PluginsIdle
NextPool ==
    \/ Tick
    \/ \E valid \in BOOLEAN, outcome \in CreateOutcomes :
          ConnectionPool_get(valid, outcome)
    \/ \E id \in 1..MaxMade, valid \in BOOLEAN :
          ConnectionPool_release(id, valid)
SpecPool == InitPool /\ [][NextPool]_vars

(***************************************************************************)
(* Claims about the connection supervisor, checked under Spec.             *)
(***************************************************************************)

\* C1: at every moment the number of accepted connections whose task has
\* not finished is at most max_connections (and so is the shared counter),
\* and a connection is accepted only in a step that starts with the counter
\* below max_connections.
C1_ConcurrencyCeiling ==
    /\ [](Cardinality(Running) <= max_connections
          /\ connection_counter <= max_connections)
    /\ [][accepted' # accepted => connection_counter < max_connections]_vars

\* C1 witness: with max_connections = 1 the loop was turned away at the
\* ceiling, and the second connection was accepted after the first task
\* had finished and decremented the counter.
C1_Witness ==
    /\ max_connections = 1
    /\ max_reached
    /\ conn[1].pc = "closed"
    /\ conn[2].pc = "accepted"
    /\ connection_counter = 1

\* C2: a connection whose dispatch panicked carries PanicError, its task
\* does not unwind, and the response it goes on to write is the one made
\* for that error, with status 500 from the default formatter.
C2_PanicContained ==
    \A c \in ConnIds :
        conn[c].dispatch = "Panic" =>
            /\ conn[c].pc # "aborted"
            /\ conn[c].pc \in {"dispatched", "responding", "finishing"} =>
                   conn[c].error = "PanicError"
            /\ conn[c].pc \in {"responding", "finishing"} =>
                   /\ conn[c].response.by \in {"default", "override"}
                   /\ conn[c].response.by = "default" =>
                          conn[c].response.status = 500

\* C3: the counter always equals the number of connection tasks still
\* running (every task decrements it exactly once when it ends), and is 0
\* when none is running.
C3_CounterEqualsRunning ==
    connection_counter = Cardinality(Running)

(***************************************************************************)
(* Claims about the middleware pipeline, checked under SpecChain.          *)
(***************************************************************************)
Mws == route.middlewares
ChainLen == Len(Mws)
IsShort(i) == Mws[i].kind \in {"short_err", "short_ok"}
Events(ev, id) ==
    {p \in 1..Len(chain_trace) : chain_trace[p].ev = ev /\ chain_trace[p].id = id}
Entered(i) == Cardinality(Events("enter", Id("mw", i)))
Invoked(i) == Entered(i) > 0
\* times the route handler ran
HandlerRuns == Cardinality(Events("handler", Id("handler", 0)))
\* the value a short-circuiting middleware i returns
ShortValue(i) ==
    [ok |-> Mws[i].kind = "short_ok", by |-> Id("mw", i), marks |-> <<>>]

\* the order of a chain of n middlewares run as an onion
OnionOrder(n) ==
    [p \in 1..(2 * n + 1) |->
        IF p <= n THEN <<"enter", Id("mw", p)>>
        ELSE IF p = n + 1 THEN <<"handler", Id("handler", 0)>>
        ELSE <<"exit", Id("mw", 2 * n + 2 - p)>>]

\* C4: when every middleware of [m1..mn] invokes its continuation (once),
\* the request side runs m1, m2, ..., mn, then the handler, and the
\* response side runs mn, ..., m1.
C4_OnionOrder ==
    (chain_pc = "done" /\ \A i \in 1..ChainLen : Mws[i].kind \in {"pass", "tag"})
    => [p \in 1..Len(chain_trace) |-> <<chain_trace[p].ev, chain_trace[p].id>>]
         = OnionOrder(ChainLen)

C4_Witness ==
    /\ chain_pc = "done"
    /\ ChainLen >= 3
    /\ \A i \in 1..ChainLen : Mws[i].kind \in {"pass", "tag"}
    /\ Len(chain_trace) = 2 * ChainLen + 1

\* C5 as stated: when m_i returns without invoking its continuation, no
\* inner middleware and not the handler is invoked, and every outer
\* middleware receives from its continuation the value m_i returned.
C5_ShortCircuit_AllOuterReceiveIt ==
    chain_pc = "done" =>
      \A i \in 1..ChainLen : (IsShort(i) /\ Invoked(i)) =>
        /\ HandlerRuns = 0
        /\ \A p \in 1..Len(chain_trace) : chain_trace[p].id.n <= i
        /\ \A p \in 1..Len(chain_trace) :
              (chain_trace[p].ev = "exit" /\ chain_trace[p].id.n < i)
              => chain_trace[p].got = ShortValue(i)

\* C5 amended: when m_i returns without invoking its continuation, no inner
\* middleware and not the handler is invoked; m_(i-1) receives from its
\* continuation the value m_i returned, and every outer middleware receives
\* what its inner neighbour returned, which is m_i's value as long as the
\* middlewares in between return what they received.
C5_ShortCircuit ==
    chain_pc = "done" =>
      \A i \in 1..ChainLen : (IsShort(i) /\ Invoked(i)) =>
        /\ HandlerRuns = 0
        /\ \A p \in 1..Len(chain_trace) : chain_trace[p].id.n <= i
        /\ \A p \in 1..Len(chain_trace) :
              (chain_trace[p].ev = "exit" /\ chain_trace[p].id.n < i) =>
                /\ p > 1
                /\ chain_trace[p - 1].ev = "exit"
                /\ chain_trace[p - 1].id.n = chain_trace[p].id.n + 1
                /\ chain_trace[p].got = chain_trace[p - 1].ret
                /\ (\A j \in (chain_trace[p].id.n + 1)..(i - 1) :
                        Mws[j].kind \in {"pass", "twice"})
                   => chain_trace[p].got = ShortValue(i)
        /\ (\A j \in 1..(i - 1) : Mws[j].kind \in {"pass", "twice"})
           => chain_result = ShortValue(i)

\* C5 witness: the middle one of three middlewares short-circuited
C5_Witness ==
    /\ chain_pc = "done"
    /\ ChainLen = 3
    /\ Mws[1].kind = "pass"
    /\ IsShort(2)
    /\ Invoked(2)
    /\ chain_result = ShortValue(2)

CallsOfNext(i) ==
    CASE IsShort(i) -> 0
      [] Mws[i].kind = "twice" -> 2
      [] OTHER -> 1

\* times the continuation that m_i holds runs: that of m_(i+1), or the
\* handler after the last middleware
RunsOfInner(i) ==
    IF i = ChainLen THEN HandlerRuns ELSE Entered(i + 1)

Ids(mws) == [i \in 1..Len(mws) |-> mws[i].id]

IsStart(e) == e.ev \in {"enter", "handler"}
IsExit(e) == e.ev = "exit"

\* who started to run, in order, and who returned, in order
StartOrder(trace) == Ids(SelectSeq(trace, IsStart))
ExitOrder(trace) == Ids(SelectSeq(trace, IsExit))

Reverse(s) == [i \in 1..Len(s) |-> s[Len(s) + 1 - i]]

\* the routes of the tables given to mount: call, key and method
MountedRoutes ==
    {x \in [call : Mounts, key : UNION {DOMAIN calls[i].subtable.routes : i \in Mounts},
            method : Methods] :
       /\ x.key \in DOMAIN calls[x.call].subtable.routes
       /\ x.method \in DOMAIN calls[x.call].subtable.routes[x.key]}

SubRoute(x) == calls[x.call].subtable.routes[x.key][x.method]
MountedAt(x) == Router_mount_path(calls[x.call].path, x.key)

\* the route mount inserted for x is still the one the table holds
StillMounted(x) ==
    /\ MountedAt(x) \in DOMAIN router.routes
    /\ x.method \in DOMAIN router.routes[MountedAt(x)]
    /\ router.routes[MountedAt(x)][x.method].handler = SubRoute(x).handler

\* C7: for a route of a sub-table mounted into a parent table, what runs
\* is the middlewares the parent table held at the time of mount, in
\* registration order, then the middlewares recorded in the sub-table's
\* route, then the handler, and they return in the reverse order; in a
\* dispatched request no parent middleware starts after a sub-table
\* middleware has started.
C7_MountChain ==
    /\ \A x \in MountedRoutes :
         StillMounted(x) =>
           LET rt    == router.routes[MountedAt(x)][x.method]
               chain == Ids(calls[x.call].middlewares)
                          \o Ids(SubRoute(x).middlewares)
               run   == Route_handle(rt)
           IN /\ Ids(rt.middlewares) = chain
              /\ StartOrder(run.trace) = chain \o <<SubRoute(x).handler.id>>
              /\ ExitOrder(run.trace) = Reverse(chain)
    /\ LET trace == last.outcome.trace IN
       \A i, j \in 1..Len(trace) :
          (i < j /\ trace[i].ev = "enter" /\ trace[i].id.t = "sub")
             => ~(trace[j].ev = "enter" /\ trace[j].id.t = "app")

\* a request ran a mounted route behind a parent and a sub-table middleware
C7_Witness ==
    /\ phase = "serving"
    /\ last.outcome.kind = "route"
    /\ last.outcome.handler.t = "sub"
    /\ \E x \in MountedRoutes :
         /\ StillMounted(x)
         /\ SubRoute(x).handler.id = last.outcome.handler
         /\ calls[x.call].middlewares # <<>>
         /\ SubRoute(x).middlewares # <<>>
    /\ \E i, j \in 1..Len(last.outcome.trace) :
         /\ last.outcome.trace[i].ev = "enter"
         /\ last.outcome.trace[i].id.t = "app"
         /\ last.outcome.trace[j].ev = "enter"
         /\ last.outcome.trace[j].id.t = "sub"

\* the request target that is the normalized form of prefix + path
MountTarget(x) == Router_add_path(calls[x.call].path \o x.key)

\* C8: right after mount(prefix, sub), for every (path, method) route of
\* sub, a request with that method whose normalized path equals
\* normalize(prefix + path) is dispatched to that route's handler, for
\* every prefix and also for a sub-table route registered at "/".
C8_MountedRoutesResolvable ==
    \A x \in MountedRoutes :
       x.call = Len(calls) =>
          /\ Request_path(MountTarget(x)) = MountTarget(x)
          /\ Serve(x.method, MountTarget(x)).kind = "route"
          /\ Serve(x.method, MountTarget(x)).handler = SubRoute(x).handler.id

\* a path is normalized: non-empty, no trailing slash unless it is "/"
Normalized(path) ==
    /\ path # <<>>
    /\ path = <<"/">> \/ path[Len(path)] # "/"

TableNormalized(r) ==
    /\ \A key \in DOMAIN r.routes : Normalized(key)
    /\ \A i \in 1..Len(r.dynamic_routes) : Normalized(r.dynamic_routes[i])

\* C9: after any sequence of registrations and mounts every key of the
\* route map and every entry of the dynamic-pattern list is a normalized
\* path: non-empty and without a trailing slash unless it is exactly "/".
C9_KeysNormalized == TableNormalized(router) /\ TableNormalized(sub)

\* request targets that differ from a registered path by trailing slashes
Variants(path) ==
    LET canon == Router_add_path(path) IN
    {canon, canon \o <<"/">>, canon \o <<"/", "/">>, path \o <<"/">>}
      \cup (IF path = <<>> THEN {} ELSE {path})

Adds == {i \in 1..Len(calls) : calls[i].op = "add"}

\* C10: for every static path registered with a method, a request with
\* that method whose target differs from the path only by trailing slashes
\* (on the registered path, the requested path or both) is dispatched to
\* the route the table holds for the canonical path, as the request for
\* the canonical path is; request parsing and registration normalize alike.
C10_TrailingSlashEquivalence ==
    /\ \A i \in Adds :
         LET canon  == Router_add_path(calls[i].path)
             method == calls[i].method
         IN /\ canon \in DOMAIN router.routes
            /\ method \in DOMAIN router.routes[canon]
            /\ \A t \in Variants(calls[i].path) :
                 /\ Request_path(t) = canon
                 /\ Router_add_path(t) = canon
                 /\ \E served \in {Serve(method, t)} :
                      /\ served = Serve(method, canon)
                      /\ served.kind = "route"
                      /\ served.handler
                           = router.routes[canon][method].handler.id
    /\ \A i \in Adds :
         (/\ phase = "serving"
          /\ last.token = calls[i].method
          /\ Request_path(last.target) = Router_add_path(calls[i].path))
         => /\ last.outcome.kind = "route"
            /\ last.outcome
                 = Serve(last.token, Router_add_path(calls[i].path))

\* a route registered with a trailing slash served a request with two
C10_Witness ==
    /\ phase = "serving"
    /\ last.token = "GET"
    /\ last.target = <<"/", "a", "/", "/">>
    /\ last.outcome.kind = "route"
    /\ last.outcome.handler.t = "app"
    /\ \E i \in Adds :
         /\ calls[i].method = "GET"
         /\ calls[i].path = <<"/", "a", "/">>

(***************************************************************************)
(* Dispatch: dynamic patterns and the HEAD and OPTIONS fallbacks           *)
(* (SpecDispatch).                                                         *)
(***************************************************************************)
\* request paths a pattern is matched against
MatchPaths ==
    {<<"/">>, <<"/", "a">>, <<"/", "b">>, <<"/", "a", "/", "b">>,
     <<"/", "b", "/", "b">>, <<"/", "a", "/", "b", "/", "c">>}

\* the patterns of the table
Patterns == {router.dynamic_routes[i] : i \in 1..Len(router.dynamic_routes)}

\* positions of the colon segments of a pattern
ColonAt(pattern) ==
    {i \in 1..Len(split(pattern, "/")) : starts_with(split(pattern, "/")[i], ":")}

\* same number of segments, and the non-colon segments are equal
SegmentsAgree(pattern, path) ==
    LET pp == split(pattern, "/")
        sp == split(path, "/")
    IN /\ Len(pp) = Len(sp)
       /\ \A i \in (1..Len(pp)) \ ColonAt(pattern) : pp[i] = sp[i]

Examined == DispatchTargets \cup {<<"/">>}

\* C12: HEAD on a path (static or matched by a dynamic pattern) that has a
\* GET route and no HEAD route yields the status and the headers GET on
\* that path yields, with an empty body, whether the GET chain succeeds or
\* fails.
C12_HeadLikeGet ==
    \A target \in Examined, ok \in BOOLEAN :
       LET head == ServeWith("HEAD", target, ok)
           get  == ServeWith("GET", target, ok)
       IN head.kind = "head" =>
            /\ get.kind = "route"
            /\ get.handler = head.handler
            /\ ResponseOf(head).status = ResponseOf(get).status
            /\ ResponseOf(head).headers = ResponseOf(get).headers
            /\ ResponseOf(head).body_empty

\* the request of a method for a target is resolved through a pattern
ThroughPattern(token, target) ==
    /\ StaticTarget(router, Request(token, target)).kind = "miss"
    /\ DynamicTarget(router, Request(token, target), 1).kind # "miss"

\* C13: a request resolved through a dynamic pattern runs its chain with
\* the parameters extracted from the path, for a route of the request's
\* method, for the HEAD fallback and for the OPTIONS fallback.
C13_ParamsBound ==
    \A token \in DispatchTokens, target \in Examined :
       ThroughPattern(token, target) =>
          \E pattern \in Patterns :
             LET m == match_dynamic_path(pattern, Request_path(target)) IN
             /\ m.some
             /\ Serve(token, target).params = m.params

\* the GET route of the path an OPTIONS request falls back to
OptionsRoute(target, ok) ==
    ResolveTarget(Behaving(router, ok), Request("OPTIONS", target)).route

\* C14 as stated: OPTIONS on a path with a GET route and no OPTIONS route
\* returns status 200 with an empty body.
C14_OptionsAlways200 ==
    \A target \in Examined, ok \in BOOLEAN :
       LET o == ServeWith("OPTIONS", target, ok) IN
       o.kind = "options" =>
          /\ ResponseOf(o).status = 200
          /\ ResponseOf(o).body_empty

\* C14: OPTIONS on a path that has a GET route and no OPTIONS route never
\* invokes the GET route's handler; the middlewares that run are those of
\* the GET route, in order, around the substituted handler; the response is
\* what that chain returns: status 200 with an empty body when every
\* middleware hands the request on, the answer of the first middleware that
\* does not otherwise.
C14_OptionsFallback ==
    \A target \in Examined, ok \in BOOLEAN :
       LET o     == ServeWith("OPTIONS", target, ok)
           rt    == OptionsRoute(target, ok)
           chain == Ids(rt.middlewares)
           short == {i \in 1..Len(chain) : rt.middlewares[i].kind # "pass"}
           entered == SelectSeq(o.trace, LAMBDA e : e.ev = "enter")
       IN o.kind = "options" =>
            /\ rt = ResolveTarget(Behaving(router, ok),
                                  Request("GET", target)).route
            /\ \A i \in 1..Len(o.trace) :
                 o.trace[i].ev = "handler" => o.trace[i].id = OptionsHandler.id
            /\ \A i \in 1..Len(o.trace) : o.trace[i].id # rt.handler.id
            /\ Len(entered) <= Len(chain)
            /\ Ids(entered) = SubSeq(chain, 1, Len(entered))
            /\ short = {} =>
                 /\ Len(entered) = Len(chain)
                 /\ HandlerInvoked(o)
                 /\ ResponseOf(o).status = 200
                 /\ ResponseOf(o).body_empty
            /\ short # {} =>
                 /\ ~HandlerInvoked(o)
                 /\ \A i \in short : Len(entered) <= i
                 /\ o.result.by = chain[Len(entered)]

\* OPTIONS answered 200 behind a middleware of the GET route
C14_Witness ==
    /\ phase = "serving"
    /\ last.token = "OPTIONS"
    /\ last.outcome.kind = "options"
    /\ ResponseOf(last.outcome).status = 200
    /\ \E i \in 1..Len(last.outcome.trace) :
         last.outcome.trace[i].ev = "enter"
    /\ last.outcome.handler.t = "app"
    /\ last.outcome.result.by = OptionsHandler.id

\* the routes of the first pattern of the list that matches the path
FirstMatching(path) ==
    LET hits == {i \in 1..Len(router.dynamic_routes) :
                   match_dynamic_path(router.dynamic_routes[i], path).some}
        first == CHOOSE i \in hits : \A j \in hits : i <= j
    IN router.routes[router.dynamic_routes[first]]

\* C15: when the request path has no exact static entry and matches
\* several dynamic patterns, the route selected is the one of the
\* earliest-registered pattern that matches the path.
C15_FirstMatchWins ==
    \A token \in DispatchTokens, target \in Examined :
       (/\ Request_path(target) \notin DOMAIN router.routes
        /\ ThroughPattern(token, target))
       => LET routes == FirstMatching(Request_path(target)) IN
          Serve(token, target).handler
             \in {routes[m].handler.id : m \in DOMAIN routes}

\* C17: whenever the request path is an exact key of the route map, no
\* dynamic pattern is scanned and no parameter is bound for the request.
C17_StaticEntryShieldsPatterns ==
    \A token \in DispatchTokens, target \in Examined :
       Request_path(target) \in DOMAIN router.routes =>
          /\ Serve(token, target).params = EmptyMap
          /\ ~ThroughPattern(token, target)

(***************************************************************************)
(* Determinism of matching (SpecOverlap).                                  *)
(***************************************************************************)
\* C16: two servers configured by the same sequence of register,
\* middleware and mount calls select the same route and bind the same
\* parameters for the same request, also when overlapping patterns come
\* from a mounted sub-table.
C16_SameCallsSameRoute ==
    \A pick \in Picks, target \in OverlapTargets :
       LET other == Application_handle(Replay(Router_new, 1, pick),
                                       static_files, Request("GET", target))
       IN /\ Serve("GET", target).handler = other.handler
          /\ Serve("GET", target).params = other.params

(***************************************************************************)
(* Totality of dispatch and static files (SpecStatic).                     *)
(***************************************************************************)
\* the table has a route of the method at the path
SomeRoute(path, method) ==
    path \in DOMAIN router.routes /\ method \in DOMAIN router.routes[path]

\* the paths of the table that serve a request path: the path itself and
\* the patterns that match it
Serving(path) ==
    {p \in DOMAIN router.routes :
        p = path \/ (p \in Patterns /\ match_dynamic_path(p, path).some)}

\* a route of the table applies to the request: one of its method, or a
\* GET route for HEAD and OPTIONS
RouteApplies(method, path) ==
    \E p \in Serving(path) :
       \/ SomeRoute(p, method)
       \/ method \in {"HEAD", "OPTIONS"} /\ SomeRoute(p, "GET")

\* C18: every parsed request ends in exactly one of: the result of a
\* registered route's chain, a synthesized HEAD or OPTIONS result, a
\* static-file response, or the NotFound error; a request none of whose
\* serving paths has a route for its method or an applicable fallback, and
\* for which there is no static file, fails with NotFound (status 404).
C18_DispatchTotal ==
    \A token \in StaticTokens, target \in StaticTargets :
       LET o      == Serve(token, target)
           method == Method_from_string(token)
           path   == Request_path(target)
       IN
       /\ o.kind \in {"route", "head", "options", "static", "not_found"}
       /\ o.kind = "route" <=>
             \E p \in Serving(path) : SomeRoute(p, method)
       /\ o.kind = "route" =>
             \E p \in Serving(path) :
                /\ SomeRoute(p, method)
                /\ o.handler = router.routes[p][method].handler.id
                /\ o.result.by = o.handler
       /\ o.kind = "head" =>
             /\ method = "HEAD"
             /\ \E p \in Serving(path) :
                   /\ SomeRoute(p, "GET")
                   /\ o.handler = router.routes[p]["GET"].handler.id
       /\ o.kind = "options" =>
             /\ method = "OPTIONS"
             /\ o.result.by = OptionsHandler.id
             /\ \E p \in Serving(path) : SomeRoute(p, "GET")
       /\ o.kind \in {"route", "head", "options"} <=> RouteApplies(method, path)
       /\ o.kind = "static" <=>
             ~RouteApplies(method, path) /\ path \in static_files
       /\ o.kind = "static" => o.result.ok /\ ResponseOf(o).status = 200
       /\ o.kind = "not_found" <=>
             ~RouteApplies(method, path) /\ path \notin static_files
       /\ o.kind = "not_found" =>
             /\ ~o.result.ok
             /\ ErrorOf(o) = "NotFound"
             /\ ResponseOf(o).status = 404
             /\ o.trace = <<>>

\* POST /f ended in NotFound although /f is registered, for GET only
C18_Witness ==
    /\ phase = "serving"
    /\ last.token = "POST"
    /\ Request_path(last.target) = <<"/", "f">>
    /\ SomeRoute(<<"/", "f">>, "GET")
    /\ last.outcome.kind = "not_found"
    /\ ResponseOf(last.outcome).status = 404

\* the file a request path names under the configured directory, resolved
ResolvedFile(path) ==
    canonicalize(ConfiguredDir.dir
                   \o split(trim_start_matches(path, "/"), "/"))

\* a resolved path lies inside the resolved root: below it or the root
InsideRoot(file, root) ==
    \E rest \in {SubSeq(file, Len(root) + 1, Len(file))} : file = root \o rest

\* C19: a static file is served only when no registered route handled the
\* request, a static root is configured, and the canonical form of root
\* joined with the request path is a regular file inside the canonical
\* root; a request path that resolves outside the root never yields file
\* contents, and ends in NotFound when no route handles it.
C19_StaticFileGuard ==
    \A token \in StaticTokens, target \in StaticTargets :
       LET o      == Serve(token, target)
           method == Method_from_string(token)
           path   == Request_path(target)
           file   == ResolvedFile(path)
           root   == canonicalize(ConfiguredDir.dir)
       IN
       /\ o.kind = "static" =>
             /\ ~RouteApplies(method, path)
             /\ ResolveTarget(router, Request(token, target)).kind = "miss"
             /\ ConfiguredDir.some
             /\ file.ok /\ root.ok
             /\ FsNodes[file.path] = "file"
             /\ InsideRoot(file.path, root.path)
       /\ (ConfiguredDir.some /\ file.ok /\ root.ok
             /\ ~InsideRoot(file.path, root.path))
            => /\ o.kind # "static"
               /\ o.result.by # Id("static", 0)
               /\ ~RouteApplies(method, path) => o.kind = "not_found"

\* /f was served from the directory, and /../s and /l, which resolve to
\* the file /s outside of it, are refused
C19_Witness ==
    /\ phase = "serving"
    /\ ConfiguredDir.some
    /\ last.target = <<"/", "f">>
    /\ last.outcome.kind = "static"
    /\ ResolvedFile(<<"/", ".", ".", "/", "s">>).ok
    /\ ResolvedFile(<<"/", "l">>).ok
    /\ Serve("GET", <<"/", ".", ".", "/", "s">>).kind = "not_found"
    /\ Serve("GET", <<"/", "l">>).kind = "not_found"

(***************************************************************************)
(* The plugin registry (SpecPlugins).                                      *)
(***************************************************************************)
\* C20: a call of Application::plugins made after the first connection
\* was accepted panics and leaves the registry unchanged; a call made
\* while the application is being configured, before listen, succeeds and
\* registers the plugin.
C20_RegistrationWindow ==
    last_insert.some =>
       /\ last_insert.accepted >= 1 =>
             last_insert.panic /\ last_insert.after = last_insert.before
       /\ last_insert.app = "config" =>
             ~last_insert.panic /\ last_insert.type \in last_insert.after

(***************************************************************************)
(* The life of one connection (Spec).                                      *)
(***************************************************************************)
\* the states of a connection, in the order of the state machine:
\* Accepted, handshake done, Parsed, Dispatched, response formatted,
\* Responded or given up, Closed
Rank(pc) ==
    CASE pc = "none"       -> 0
      [] pc = "accepted"   -> 1
      [] pc = "reading"    -> 2
      [] pc = "parsed"     -> 3
      [] pc = "dispatched" -> 4
      [] pc = "responding" -> 5
      [] pc = "finishing"  -> 6
      [] pc \in {"closed", "aborted"} -> 7

\* the state a connection is in when it enters `pc`
Before(pc) ==
    CASE pc = "accepted"   -> {"none"}
      [] pc = "reading"    -> {"accepted"}
      [] pc = "parsed"     -> {"reading"}
      [] pc = "dispatched" -> {"parsed"}
      [] pc = "responding" -> {"dispatched"}
      [] pc = "finishing"  -> {"accepted", "reading", "responding"}
      [] pc = "closed"     -> {"finishing"}
      [] pc = "aborted"    -> {"parsed", "dispatched"}
      [] OTHER             -> {}

\* the response of connection c is on the wire
Responded(c_conn) == c_conn.pc = "finishing" /\ c_conn.result = "Written"

ConnStep(c) ==
    /\ Rank(conn'[c].pc) >= Rank(conn[c].pc)
    /\ conn'[c].pc # conn[c].pc => conn[c].pc \in Before(conn'[c].pc)
    \* the response is written in the step that leaves "responding", where
    \* a connection arrives only through Parsed and Dispatched
    /\ Responded(conn'[c]) /\ ~Responded(conn[c]) =>
          conn[c].pc = "responding" /\ conn[c].dispatch # "none"
    \* a connection that ends while its request line is read is not answered
    /\ conn[c].pc \in {"accepted", "reading"} /\ conn'[c].pc = "finishing" =>
          conn'[c].result \in {"Ok", "Err"} /\ conn'[c].response = NoResponse

\* C21: every connection moves through Accepted, (TLS handshake), Parsed,
\* Dispatched, Responded, Closed in that order and never backwards; it
\* reads at most one request and writes at most one response, writes it
\* only after a request was parsed and dispatched, and a connection whose
\* first line is empty gets no response.
C21_ConnectionOrder == [][\A c \in ConnIds : ConnStep(c)]_vars

\* without TLS, one connection was answered and another ended with Ok(())
\* and no response, which is the empty request line
C21_Witness ==
    /\ ~tls_config
    /\ \E c, d \in ConnIds :
          /\ Responded(conn[c])
          /\ conn[c].dispatch # "none"
          /\ conn[d].pc = "finishing"
          /\ conn[d].result = "Ok"
          /\ conn[d].response = NoResponse

(***************************************************************************)
(* Waiting at the connection ceiling (SpecLive).                           *)
(***************************************************************************)
\* the loop accepts only in a round in which it loaded a counter below the
\* ceiling
NotServicedAtCeiling ==
    [][accepted' > accepted => connection_counter < max_connections]_vars

\* C22: at the ceiling a waiting connection attempt is not serviced while
\* the counter stays at the ceiling, and it is eventually accepted: every
\* running task eventually finishes, which frees its slot.
C22_WaitingEventuallyAccepted ==
    /\ NotServicedAtCeiling
    /\ \A n \in 0..(MaxAccepts - 1) :
          (accepted = n /\ CeilingReached) ~> (accepted > n)

(***************************************************************************)
(* Errors that reach the supervisor (Spec).                                *)
(***************************************************************************)
\* the step of connection c that formats the error its dispatch ended in
FormatsError(c) ==
    /\ conn[c].pc = "dispatched"
    /\ conn[c].error # "none"
    /\ conn'[c] # conn[c]

\* C23: every error that reaches the supervisor (returned by a handler or
\* middleware, NotFound from dispatch, PanicError from a caught panic) is
\* turned into a response: by the override formatter when one is set,
\* otherwise by the default formatter, whose status is the error's mapped
\* code and whose JSON body carries that same status.
C23_ErrorsAnswered ==
    [][\A c \in ConnIds :
          FormatsError(c) =>
             /\ conn'[c].pc = "responding"
             /\ IF on_error = "Some"
                THEN conn'[c].response.by = "override"
                ELSE /\ conn'[c].response = Response_error(conn[c].error)
                     /\ conn'[c].response.status = status_code(conn[c].error)
                     /\ Response_error_body(conn[c].error).error.status
                          = conn'[c].response.status]_vars

(***************************************************************************)
(* Unknown method tokens (SpecDispatch).                                   *)
(***************************************************************************)
\* method tokens that are none of the nine names Method::from_string knows
UnknownTokens == {"get", "BREW", "Post"}

\* C25: a request line whose method token is not one of the nine
\* recognized upper-case names is dispatched exactly as a GET request for
\* the same target: same route, same handler, same result.
C25_UnknownMethodIsGet ==
    \A token \in UnknownTokens, target \in Examined, ok \in BOOLEAN :
       /\ token \notin Methods
       /\ Request(token, target) = Request("GET", target)
       /\ ServeWith(token, target, ok) = ServeWith("GET", target, ok)

\* a request with the token "get" ran the handler of a GET route
C25_Witness ==
    /\ phase = "serving"
    /\ last.token = "get"
    /\ last.outcome.kind = "route"
    /\ HandlerInvoked(last.outcome)
    /\ \E p \in DOMAIN router.routes :
          /\ "GET" \in DOMAIN router.routes[p]
          /\ "POST" \in DOMAIN router.routes[p]
          /\ router.routes[p]["GET"].handler.id = last.outcome.handler

(***************************************************************************)
(* Status codes (SpecCodec).                                               *)
(***************************************************************************)
\* the table of wire statuses
StatusTable ==
    [e \in ErrorKinds |->
        CASE e = "BadRequest"      -> 400
          [] e = "Unauthorized"    -> 401
          [] e = "Forbidden"       -> 403
          [] e = "NotFound"        -> 404
          [] e = "Conflict"        -> 409
          [] e = "ParseError"      -> 422
          [] e = "ValidationError" -> 422
          [] e = "TooManyRequests" -> 429
          [] e = "IoError"         -> 500
          [] e = "InternalError"   -> 500
          [] e = "PanicError"      -> 500]

\* C24: status_code maps every error kind to the wire status of the table.
C24_StatusTable ==
    (fn_input.fn = "status_code" /\ fn_output.done) =>
       fn_output.value = StatusTable[fn_input.arg]

\* status_code was called on ValidationError and returned 422
C24_Witness ==
    /\ fn_input = [fn |-> "status_code", arg |-> "ValidationError"]
    /\ fn_output = Returned(422)

(***************************************************************************)
(* The response on the wire (SpecCodec).                                   *)
(***************************************************************************)
\* the Content-Length lines of what was written
LengthLines(wire) ==
    {i \in 1..Len(wire.header_lines) :
        wire.header_lines[i].name = "Content-Length"}

\* C26: every response written consists of the status line, the
\* response's headers, exactly one Content-Length header whose value is
\* the byte length of the body that follows, a blank line and the body,
\* for every response a handler or middleware can return, one that already
\* carries a Content-Length header included.
C26_OneContentLength ==
    (fn_input.fn = "write" /\ fn_output.done) =>
       LET wire == fn_output.value IN
       /\ wire.status_line = Chained(fn_input.arg).status
       /\ wire.body = Chained(fn_input.arg).body
       /\ Cardinality(LengthLines(wire)) = 1
       /\ \A i \in LengthLines(wire) :
             wire.header_lines[i].value = str_len(wire.body)

(***************************************************************************)
(* Request targets (SpecCodec).                                            *)
(***************************************************************************)
\* the text before the first occurrence of ch, and the text after it
BeforeFirst(str, ch) == split(str, ch)[1]
AfterFirst(str, ch) ==
    IF contains(str, ch)
    THEN SubSeq(str, Len(BeforeFirst(str, ch)) + 2, Len(str))
    ELSE <<>>

\* the query map as stated: per non-empty "&"-separated segment, the key is
\* the text before the segment's first "=", the value all text after it
RECURSIVE QueryOf(_, _)
QueryOf(map, segments) ==
    IF segments = <<>>
    THEN map
    ELSE QueryOf(Insert(map, BeforeFirst(Head(segments), "="),
                             AfterFirst(Head(segments), "=")),
                 Tail(segments))

\* C27: the target is split at its first "?" into path and raw query
\* string, which is everything after the first "?"; the query map holds,
\* for each non-empty "&"-separated segment, key = the text before the
\* segment's first "=" and value = all text after that "=" (empty without
\* "="), the last occurrence of a key winning.
C27_QueryOfTarget ==
    (fn_input.fn = "target" /\ fn_output.done) =>
       LET target == fn_input.arg
           raw    == AfterFirst(target, "?")
       IN
       /\ fn_output.value.path
            = Router_add_path(BeforeFirst(target, "?"))
       /\ fn_output.value.query
            = QueryOf(EmptyMap, NonEmpty(split(raw, "&")))

(***************************************************************************)
(* Bracket keys of URL-encoded bodies (SpecCodec).                         *)
(***************************************************************************)
Missing == [t |-> "none", v |-> <<>>]

\* the value at a path of names
RECURSIVE Lookup(_, _)
Lookup(value, names) ==
    IF names = <<>>
    THEN value
    ELSE IF value.t = "obj" /\ Head(names) \in DOMAIN value.v
         THEN Lookup(value.v[Head(names)], Tail(names))
         ELSE Missing

\* the pairs of a body, decoded: key, value
PairsOf(body) ==
    LET segments == SelectSeq(split(body, "&"),
                              LAMBDA seg : contains(seg, "="))
    IN [i \in 1..Len(segments) |->
          [key   |-> urlencoding_decode(BeforeFirst(segments[i], "=")),
           value |-> urlencoding_decode(AfterFirst(segments[i], "="))]]

\* a path of names in bracket notation: root[name]...[name], every name
\* non-empty and no number
IsNamePath(text) ==
    LET pieces == SplitBrackets(text)
        names  == NonEmpty(pieces)
    IN /\ text # <<>>
       /\ text[1] \notin {"[", "]"}
       /\ Cardinality({i \in 1..Len(text) : text[i] = "["}) = Len(names) - 1
       /\ Cardinality({i \in 1..Len(text) : text[i] = "]"}) = Len(names) - 1
       /\ \A i \in 1..Len(names) : ~IsNumber(names[i])
       /\ Len(names) > 1 => text[Len(text)] = "]"
NamesOf(text) == NonEmpty(SplitBrackets(text))

\* a key that is a path of names followed by an empty bracket
IsListKey(key) ==
    /\ EndsWithEmptyBracket(key)
    /\ IsNamePath(SubSeq(key, 1, Len(key) - 2))
ListOf(key) == SubSeq(key, 1, Len(key) - 2)

\* the values the pairs give to a key, in order of appearance
ValuesOf(pairs, key) ==
    LET mine == SelectSeq(pairs, LAMBDA pair : pair.key = key) IN
    [i \in 1..Len(mine) |-> Str(mine[i].value)]

MiddleEmptyKeys(key) ==
    {split_at \in 1..Len(key) :
        /\ split_at + 3 < Len(key)
        /\ SubSeq(key, split_at, split_at + 2) = <<"[", "]", "[">>
        /\ key[Len(key)] = "]"
        /\ IsNamePath(SubSeq(key, 1, split_at - 1))
        /\ IsNamePath(<<"x", "[">> \o SubSeq(key, split_at + 3, Len(key)))}

\* key = root [i] [name]: a numeric segment before the last segment
NumericKeys(key) ==
    {split_at \in 1..Len(key) :
        /\ key[split_at] = "["
        /\ IsNamePath(SubSeq(key, 1, split_at - 1))
        /\ Len(NonEmpty(SplitBrackets(key))) = 3
        /\ NonEmpty(SplitBrackets(key))[1] = SubSeq(key, 1, split_at - 1)
        /\ IsNumber(NonEmpty(SplitBrackets(key))[2])
        /\ ~IsNumber(NonEmpty(SplitBrackets(key))[3])
        /\ ~EndsWithEmptyBracket(key)}

\* C29: an empty bracket at any position of the key, not only the last,
\* appends a new array element: list[][name] = v makes `list` an array
\* whose appended element is a map with name = v; a numeric segment i
\* addresses index i of an array grown with empty objects up to i.
C29_EmptyBracketAnywhere ==
    (fn_input.fn = "urlencoded" /\ fn_output.done
        /\ Len(PairsOf(fn_input.arg)) = 1) =>
       LET key   == PairsOf(fn_input.arg)[1].key
           value == PairsOf(fn_input.arg)[1].value
       IN
       /\ \A at \in MiddleEmptyKeys(key) :
             LET list == Lookup(fn_output.value,
                                NamesOf(SubSeq(key, 1, at - 1)))
                 name == SubSeq(key, at + 3, Len(key) - 1)
             IN /\ list.t = "arr"
                /\ Len(list.v) = 1
                /\ list.v[1] = Obj(name :> Str(value))
       /\ \A at \in NumericKeys(key) :
             LET parts == NonEmpty(SplitBrackets(key))
                 list  == Lookup(fn_output.value, <<parts[1]>>)
                 idx   == ParseOrZero(parts[2])
             IN /\ list.t = "arr"
                /\ Len(list.v) = idx + 1
                /\ \A j \in 1..idx : list.v[j] = Obj(EmptyMap)
                /\ list.v[idx + 1] = Obj(parts[3] :> Str(value))

(***************************************************************************)
(* Multipart round trip (SpecCodec).                                       *)
(***************************************************************************)
\* C30: for a well-formed multipart/form-data body with a file part of
\* name n, filename f and content c, form_data decodes to a structure with
\* n.filename = f and n.content = base64(c); a part without filename
\* decodes to n = its text.
C30_MultipartRoundTrip ==
    (fn_input.fn = "form_data" /\ fn_output.done) =>
       /\ fn_output.value.tag = "Ok"
       /\ \A i \in 1..Len(fn_input.arg) :
             LET part    == fn_input.arg[i]
                 decoded == Lookup(fn_output.value.value, <<part.name>>)
             IN IF part.file
                THEN /\ Lookup(decoded, <<<<"filename">>>>)
                          = Str(part.filename)
                     /\ Lookup(decoded, <<<<"content">>>>)
                          = Str(base64_encode(part.content))
                ELSE decoded = Str(part.content)

(***************************************************************************)
(* Damaged multipart bodies (SpecCodec).                                   *)
(***************************************************************************)
\* the structure the parts decode to when nothing is wrong
RECURSIVE Complete(_, _)
Complete(json, parts) ==
    IF parts = <<>>
    THEN json
    ELSE Complete(
             Insert(json, Head(parts).name,
                    IF Head(parts).file
                    THEN Obj((<<"filename">> :> Str(Head(parts).filename))
                             @@ (<<"content">> :>
                                    Str(base64_encode(Head(parts).content)))
                             @@ (<<"content_type">> :> Str(<<"text/plain">>)))
                    ELSE Str(Head(parts).content)),
             Tail(parts))

\* C31: form_data on a multipart/form-data body returns the complete
\* decoded structure or nothing: a missing boundary, a part without blank
\* line, headers that are not UTF-8 and a truncated body all yield
\* nothing, never a partial structure and never a fault.
C31_AllOrNothing ==
    (fn_input.fn = "damaged" /\ fn_output.done) =>
       IF fn_input.arg.defect = "none"
       THEN /\ fn_output.value.tag = "Ok"
            /\ fn_output.value.value = Obj(Complete(EmptyMap, fn_input.arg.parts))
       ELSE fn_output.value.tag = "Err"

(***************************************************************************)
(* Routes are snapshots (SpecRouter).                                      *)
(***************************************************************************)
\* the middlewares of a list that were added before the call numbered n
Earlier(mws, n) == SelectSeq(mws, LAMBDA m : m.id.n < n)

\* the routes a table holds: key and method
RoutesOf(r) ==
    {x \in [key : DOMAIN r.routes, method : Methods] :
        x.method \in DOMAIN r.routes[x.key]}

\* the routes of a table that were registered on it have the chain of the
\* middlewares added to it before them
RegisteredSnapshot(r, t) ==
    \A x \in RoutesOf(r) :
       LET rt == r.routes[x.key][x.method] IN
       rt.handler.id.t = t
          => rt.middlewares = Earlier(r.middlewares, rt.handler.id.n)

\* the chain of a mounted route: the parent's middlewares added before the
\* mount, then the sub-table's added before the route
MountedChain(x) ==
    Earlier(router.middlewares, calls[x.call].id.n)
       \o Earlier(calls[x.call].subtable.middlewares,
                  SubRoute(x).handler.id.n)

\* C32: a route's chain is the snapshot taken when it was registered or
\* mounted: a middleware added to the table after the route, or to the
\* parent after the mount, is not in the chain and does not run for it;
\* a middleware added before is in the chain and runs.
C32_RouteIsSnapshot ==
    /\ RegisteredSnapshot(router, "app")
    /\ RegisteredSnapshot(sub, "sub")
    /\ \A x \in MountedRoutes :
         StillMounted(x)
            => router.routes[MountedAt(x)][x.method].middlewares
                  = MountedChain(x)
    /\ last.outcome.kind = "route" =>
         LET h == last.outcome.handler IN
         IF h.t = "app"
         THEN StartOrder(last.outcome.trace)
                 = Ids(Earlier(router.middlewares, h.n)) \o <<h>>
         ELSE \E x \in MountedRoutes :
                 /\ SubRoute(x).handler.id = h
                 /\ StartOrder(last.outcome.trace)
                       = Ids(MountedChain(x)) \o <<h>>

\* a request ran a route registered between two middlewares: the first
\* ran, the second did not
C32_Witness ==
    /\ phase = "serving"
    /\ last.outcome.kind = "route"
    /\ last.outcome.handler = Id("app", 2)
    /\ Ids(router.middlewares) = <<Id("app", 1), Id("app", 3)>>
    /\ StartOrder(last.outcome.trace) = <<Id("app", 1), Id("app", 2)>>

(***************************************************************************)
(* Registering a pair again (SpecRouter).                                  *)
(***************************************************************************)
\* the (normalized path, method) pairs a call inserts, with the handler of
\* the route it inserts
Inserted(call) ==
    IF call.op = "add"
    THEN {[path |-> Router_add_path(call.path), method |-> call.method,
           handler |-> call.id]}
    ELSE IF call.op = "mount"
    THEN {x \in [path : {Router_add_path(call.path \o key) :
                            key \in DOMAIN call.subtable.routes},
                  method : Methods,
                  handler : {Id("sub", n) : n \in 1..(MaxCalls + 1)}] :
            \E key \in DOMAIN call.subtable.routes :
               /\ x.path = Router_add_path(call.path \o key)
               /\ x.method \in DOMAIN call.subtable.routes[key]
               /\ x.handler
                    = call.subtable.routes[key][x.method].handler.id}
    ELSE {}

\* the last call that inserted the pair of x is the call numbered i
InsertedLast(x, i) ==
    /\ x \in Inserted(calls[i])
    /\ \A j \in (i + 1)..Len(calls) :
          \A y \in Inserted(calls[j]) :
             ~(y.path = x.path /\ y.method = x.method)

\* the table holds, for every pair ever inserted, the route inserted last
LastInsertWins ==
    \A i \in 1..Len(calls) :
       \A x \in Inserted(calls[i]) :
          InsertedLast(x, i)
             => /\ x.path \in DOMAIN router.routes
                /\ x.method \in DOMAIN router.routes[x.path]
                /\ router.routes[x.path][x.method].handler.id = x.handler

\* a call leaves the routes of the pairs it does not insert as they were
OthersUnchanged ==
    calls' # calls =>
       \A x \in RoutesOf(router) :
          (\A y \in Inserted(calls'[Len(calls')]) :
              ~(y.path = x.key /\ y.method = x.method))
             => /\ x.key \in DOMAIN router'.routes
                /\ x.method \in DOMAIN router'.routes[x.key]
                /\ router'.routes[x.key][x.method]
                      = router.routes[x.key][x.method]

\* C36: registering a (normalized path, method) pair again, by a second
\* registration or by a mount that produces the pair, replaces the earlier
\* route: the table holds for each pair the route inserted last, and the
\* routes of the other pairs are unchanged.
C36_LastInsertWins == []LastInsertWins /\ [][OthersUnchanged]_vars

(***************************************************************************)
(* mount and the parent's own middlewares (SpecRouter).                    *)
(***************************************************************************)
\* the call just made is a mount and left the table's list as it was
MountKeepsList ==
    (calls' # calls /\ calls'[Len(calls')].op = "mount")
       => router'.middlewares = router.middlewares

\* no middleware of a sub-table in the table's list or in the chain of a
\* route registered on the table
OwnOnly ==
    /\ \A i \in 1..Len(router.middlewares) :
          router.middlewares[i].id.t = "app"
    /\ \A x \in RoutesOf(router) :
          LET rt == router.routes[x.key][x.method] IN
          rt.handler.id.t = "app"
             => \A i \in 1..Len(rt.middlewares) :
                   rt.middlewares[i].id.t = "app"

\* a request served by a route registered on the table starts no
\* middleware of a sub-table
OwnOnlyRun ==
    (last.outcome.kind = "route" /\ last.outcome.handler.t = "app")
       => \A i \in 1..Len(last.outcome.trace) :
             last.outcome.trace[i].id.t = "app"

\* C37: mount leaves the mounting table's own middleware list unchanged;
\* the sub-table's middlewares go only into the chains of the mounted
\* routes, so a route registered on the parent after the mount runs the
\* parent's middlewares and never one of the sub-table.
C37_MountKeepsParentList ==
    [](OwnOnly /\ OwnOnlyRun) /\ [][MountKeepsList]_vars

\* a route registered after the mount of a table with a middleware and a
\* route served a request
C37_Witness ==
    /\ phase = "serving"
    /\ last.outcome.kind = "route"
    /\ last.outcome.handler.t = "app"
    /\ \E x \in MountedRoutes :
         /\ SubRoute(x).middlewares # <<>>
         /\ calls[x.call].id.n <= last.outcome.handler.n

(***************************************************************************)
(* Errors travel unchanged (SpecErrors).                                   *)
(***************************************************************************)
\* the request was dispatched and its chain ended in an error
FailedRun ==
    /\ last # NoDispatch
    /\ last.outcome.kind \in {"route", "head", "options"}
    /\ ~last.outcome.result.ok

\* who returned the error first: the handler, or a middleware that did not
\* invoke its continuation
Origin(trace) ==
    {trace[i].id : i \in {j \in 1..Len(trace) :
                            \/ trace[j].ev = "handler"
                            \/ /\ trace[j].ev = "exit"
                               /\ trace[j].got = NoResult}}

\* every middleware that received the error returned it as it was, the
\* dispatcher returned what the chain returned, and that is the error of
\* the one who returned it first; the handler ran at most once
TravelsUnchanged ==
    FailedRun =>
       LET trace == last.outcome.trace IN
       /\ \A i \in 1..Len(trace) :
             (trace[i].ev = "exit" /\ trace[i].got # NoResult)
                => trace[i].ret = trace[i].got
       /\ last.outcome.result.by \in Origin(trace)
       /\ last.outcome.result.marks = <<>>
       /\ Cardinality({i \in 1..Len(trace) : trace[i].ev = "handler"}) <= 1

\* the supervisor holds the error the dispatch returned
ReachesSupervisor ==
    (FailedRun /\ conn[1].pc \in {"dispatched", "responding", "finishing"})
       => conn[1].error
             = IF HandleOutcome(last.outcome).tag = "Panic"
               THEN "PanicError"
               ELSE IF last.outcome.result.by.t = "app"
                       /\ HandlerInvoked(last.outcome)
                    THEN "BadRequest"
                    ELSE "Unauthorized"

\* the response about to be written for an error
Answering ==
    /\ conn[1].pc \in {"responding", "finishing"}
    /\ conn[1].error # "none"

\* C33 as stated: an error returned by a handler or a middleware travels
\* unchanged through the outer middlewares and the dispatcher up to the
\* supervisor, the handler is not invoked a second time, and the status
\* written is the mapped status of exactly that error.
C33_StatusIsMapped ==
    /\ TravelsUnchanged
    /\ ReachesSupervisor
    /\ Answering => conn[1].response.status = status_code(conn[1].error)

\* C33: the error travels unchanged up to the supervisor and the handler
\* is not invoked a second time; the status written is the mapped status
\* of exactly that error when no override formatter is set, and the
\* response of the override when one is set.
C33_ErrorsTravelUnchanged ==
    /\ TravelsUnchanged
    /\ ReachesSupervisor
    /\ Answering =>
          IF on_error = "None"
          THEN conn[1].response = Response_error(conn[1].error)
          ELSE conn[1].response.by = "override"

\* the error of a handler behind two middlewares was written with its
\* mapped status
C33_Witness ==
    /\ FailedRun
    /\ HandlerInvoked(last.outcome)
    /\ Len(last.outcome.trace) = 5
    /\ conn[1].pc = "finishing"
    /\ conn[1].result = "Written"
    /\ conn[1].error = "BadRequest"
    /\ conn[1].response.status = 400

(***************************************************************************)
(* Parameters of a dynamic route (SpecErrors).                             *)
(***************************************************************************)
\* the handler of a route registered under a pattern was invoked
PatternHandlerInvoked ==
    /\ last # NoDispatch
    /\ last.outcome.kind \in {"route", "head", "options"}
    /\ last.outcome.needs # {}
    /\ \E i \in 1..Len(last.outcome.trace) :
          /\ last.outcome.trace[i].ev = "handler"
          /\ last.outcome.trace[i].id = last.outcome.handler

\* C34: whenever the handler of a route registered under a dynamic pattern
\* is invoked, the request's parameter map has an entry for every
\* colon-prefixed name of the pattern, for every request that can reach
\* it, a request whose path is the pattern string itself included.
C34_PatternParamsBound ==
    PatternHandlerInvoked => last.outcome.needs \subseteq DOMAIN last.outcome.params

(***************************************************************************)
(* The plugin set while it is shared (SpecPlugins).                        *)
(***************************************************************************)
\* more than one handle holds the registry, or the server owns it
Shared ==
    \/ strong_count(holders) > 1
    \/ holders.app = "listening"

\* C35: the plugin set is frozen while shared: once the registry handle
\* has been cloned (into an Application clone, a connection task or a
\* request) no insert changes the set, so every connection task and every
\* request of one server sees the same plugin set for its whole lifetime.
C35_FrozenWhileShared == [][Shared => plugins' = plugins]_vars

\* a registration was tried while a request of the server was being
\* handled: it panicked and the set, which holds a plugin, is as it was
C35_Witness ==
    /\ last_insert.some
    /\ last_insert.panic
    /\ last_insert.accepted >= 1
    /\ last_insert.before = {"Db"}
    /\ plugins = {"Db"}
    /\ holders.requests >= 1

(***************************************************************************)
(* The rate limiter (SpecLimiter).                                         *)
(***************************************************************************)
\* L = min(burst_size, requests_per_minute)
Limit ==
    IF limiter.burst_size < limiter.requests_per_minute
    THEN limiter.burst_size
    ELSE limiter.requests_per_minute

\* at most L requests of each key were handed on in each minute
AtMostLimit ==
    \A key \in DOMAIN passed :
       \A from \in 0..MaxTime :
          Len(SelectSeq(passed[key],
                        LAMBDA time : from <= time /\ time < from + Minute))
             <= Limit

\* a request that came when L of its key had been handed on within the
\* minute was answered TooManyRequests and its continuation did not run
FurtherRefused ==
    last_limit.some =>
       /\ last_limit.recent >= Limit => ~last_limit.allowed
       /\ ~last_limit.allowed
             => /\ last_limit.response = "TooManyRequests"
                /\ ~last_limit.next_called

\* a request leaves what is recorded for the other keys as it was
OtherKeysUntouched ==
    \A key \in DOMAIN requests :
       (last_limit'.some /\ last_limit'.key # key)
          => /\ key \in DOMAIN requests'
             /\ requests'[key] = requests[key]

\* C38: with L = min(burst_size, requests_per_minute), for every (client,
\* path) key and every 60-second window at most L requests of the key are
\* passed on to the inner chain; every further request is answered with
\* TooManyRequests without invoking the continuation, and requests of one
\* key never change what is allowed for another key.
C38_RateLimit ==
    [](AtMostLimit /\ FurtherRefused) /\ [][OtherKeysUntouched]_vars

(***************************************************************************)
(* The connection pool (SpecPool).                                         *)
(***************************************************************************)
\* the connections that are open: those idle in the queue and those handed
\* out and not yet released
OpenConnections == Len(pool.connections) + Cardinality(leased)

\* get creates a connection only while fewer than max_size are open
CreatesWithinBound ==
    (last_get.some /\ last_get.result = "created")
       => last_get.open < pool.max_size

\* C39: the connections a pool has open, idle ones and handed-out ones
\* together, never exceed max_size; the idle queue never holds more than
\* max_size connections; and get returns PoolExhausted instead of creating
\* a connection beyond that bound.
C39_PoolBound ==
    /\ OpenConnections <= pool.max_size
    /\ Len(pool.connections) <= pool.max_size
    /\ CreatesWithinBound

====
